---- MODULE Spec2Model ----
(***************************************************************************)
(* luminance: the tessellation builder (TessBuilder), the tessellation it  *)
(* builds (Tess) and the views taken of it (TessView), from                *)
(* src/luminance/src/tess.rs.                                              *)
(*                                                                         *)
(* Rust's Option<T> is a sequence of length 0 (None) or 1 (Some(x)); a     *)
(* Result<T, E> is a record [ok |-> TRUE, val |-> x] or                    *)
(* [ok |-> FALSE, err |-> e]. Rust indexes from 0, TLA+ sequences from 1:  *)
(* rank r of the source is position r + 1 here.                            *)
(***************************************************************************)
EXTENDS Integers, Sequences, FiniteSets, TLC

\* Longest Vec handed to a setter.
MaxLen == 2

\* Width of usize in the model (64 on the targets the crate is built for).
usize_BITS == 3

usize_MAX == 2 ^ usize_BITS - 1

VARIABLES
  pc,              \* "builder": a TessBuilder chain is open; "built": build has returned
  S,               \* storage marker of the builder: "Interleaved" or "Deinterleaved"
  V, I, W,         \* vertex, index and instance type parameters of the builder
  vertex_data,     \* Option<V::Data>
  index_data,      \* Vec<I>
  instance_data,   \* Option<W::Data>
  mode,            \* Mode
  render_vert_nb,  \* usize
  render_inst_nb,  \* usize
  restart_index,   \* Option<I>
  backend_calls,   \* the calls the backend has received, in order
  result,          \* Option<Result<Tess, TessError>>: what build returned
  call,            \* Option of the TessView constructor last called, with its arguments
  view,            \* Option<Result<TessView, TessViewError>>: what that constructor returned
  scopes,          \* the gate scopes that are open, outermost first
  pending,         \* Option of the error the last nested gate call returned to the running callback
  returns,         \* the gate calls that have returned, with their callback's result and their own
  final,           \* Option of what with_framebuffer returned to its caller
  storage,         \* the buffers of the Tess in the backend, None without a Tess
  mapped,          \* the mapped slices of the Tess that are alive
  slice_result,    \* Option<Result<(), TessMapError>>: what the last mapping call returned
  written,         \* Option of the content last written through a mutable slice
  seen             \* what has been read through slices since then, in order

vars == <<pc, S, V, I, W, vertex_data, index_data, instance_data, mode,
          render_vert_nb, render_inst_nb, restart_index, backend_calls, result,
          call, view, scopes, pending, returns, final, storage, mapped,
          slice_result, written, seen>>

pipeline == <<scopes, pending, returns, final>>

mapping == <<storage, mapped, slice_result, written, seen>>

builder == <<S, V, I, W, vertex_data, index_data, instance_data, mode,
             render_vert_nb, render_inst_nb, restart_index>>

----------------------------------------------------------------------------
\* Option and Result

None == <<>>

Some(x) == <<x>>

is_some(o) == Len(o) = 1

is_none(o) == Len(o) = 0

unwrap(o) == o[1]

Ok(x) == [ok |-> TRUE, val |-> x]

Err(e) == [ok |-> FALSE, err |-> e]

----------------------------------------------------------------------------
\* Errors

NoData == [kind |-> "NoData"]

length_incoherency(len) == [kind |-> "LengthIncoherency", len |-> len]

attributeless_error(e) == [kind |-> "AttributelessError", msg |-> e]

cannot_create(e) == [kind |-> "CannotCreate", msg |-> e]

IncorrectViewWindow(capacity, start, nb) ==
  [kind |-> "IncorrectViewWindow", capacity |-> capacity, start |-> start, nb |-> nb]

----------------------------------------------------------------------------
\* Types and the inputs drawn for the setters

\* The unit type and one type implementing the trait, for each type parameter.
VertexTypes == {"()", "Vertex"}

IndexTypes == {"()", "u32"}

\* The element types of the Vecs handed to set_vertices / set_instances and to
\* set_indices.
VertexInputTypes == VertexTypes \ {"()"}

IndexInputTypes == IndexTypes \ {"()"}

\* The fields of the vertex type Vertex, in rank order.
VertexFields == <<"pos", "rgb">>

\* V::vertex_desc() of each vertex type: one descriptor per field.
vertex_desc(T) == IF T = "()" THEN <<>> ELSE VertexFields

\* std::mem::size_of of a field's type, in bytes: pos is a [f32; 2], rgb a [u8; 3].
size_of(NAME) == IF NAME = "pos" THEN 8 ELSE 3

\* V::RANK of the field NAME (1-based).
RANK(T, NAME) == CHOOSE r \in 1..Len(vertex_desc(T)) : vertex_desc(T)[r] = NAME

\* The values of a type: vertices, attributes and indices are opaque to the builder.
ValuesOf(T) ==
  CASE T = "()" -> {"()"}
    [] T = "u32" -> {0}
    [] T = "Vertex" -> {"v"}
    [] OTHER -> {T}

\* Every Vec<T> of at most MaxLen elements.
Vecs(T) == UNION {[1..n -> ValuesOf(T)] : n \in 0..MaxLen}

ModeInputs == {"Point", "Triangle"}

\* Render counts handed to set_render_vertex_nb / set_render_instance_nb: up to
\* one more than the longest Vec, so that a count can exceed any data length.
RenderNbInputs == 0..(MaxLen + 1)

----------------------------------------------------------------------------
\* DeinterleavedData

DeinterleavedData_new == [raw |-> <<>>, len |-> 0]

\* The attributes reinterpreted as a raw Vec<u8>: size_of::<FieldType>() bytes
\* per attribute, len * size_of bytes in all.
RECURSIVE raw_bytes(_, _)
raw_bytes(attributes, size) ==
  IF attributes = <<>> THEN <<>>
  ELSE [b \in 1..size |-> <<attributes[1], b>>] \o raw_bytes(Tail(attributes), size)

\* Mutant: the columns are made anew at every call, so that only the last
\* column given is kept.
build_raw_alone(deinterleaved, T, NAME, attributes) ==
  [a \in 1..Len(deinterleaved) |->
     IF a = RANK(T, NAME)
     THEN [raw |-> raw_bytes(attributes, size_of(NAME)), len |-> Len(attributes)]
     ELSE DeinterleavedData_new]

\* The closure build_raw of set_attributes / set_instance_attributes: replaces
\* the column at the field's rank.
build_raw(deinterleaved, T, NAME, attributes) ==
  [deinterleaved EXCEPT ![RANK(T, NAME)] =
     [raw |-> raw_bytes(attributes, size_of(NAME)), len |-> Len(attributes)]]

\* The match of set_attributes / set_instance_attributes on the data the
\* builder holds: build_raw on the columns it has, or on one new column per
\* field of the vertex type when it has none.
with_attributes(data, T, NAME, attributes) ==
  LET deinterleaved ==
        IF is_some(data) THEN unwrap(data)
        ELSE [a \in 1..Len(vertex_desc(T)) |-> DeinterleavedData_new]
  IN Some(build_raw(deinterleaved, T, NAME, attributes))

----------------------------------------------------------------------------
\* TessVertexData::coherent_len

\* Mutant: an empty Vec is taken for missing data.
coherent_len_Interleaved_empty(data) ==
  IF data = <<>> THEN Err(NoData) ELSE Ok(Len(data))

coherent_len_Interleaved(data) == Ok(Len(data))

coherent_len_Deinterleaved(data) ==
  IF data = <<>> THEN Ok(0)
  ELSE LET len == data[1].len
       IN IF \E a \in 2..Len(data) : data[a].len # len
          THEN Err(length_incoherency(len))
          ELSE Ok(len)

coherent_len(data) ==
  IF S = "Interleaved" THEN coherent_len_Interleaved(data)
  ELSE coherent_len_Deinterleaved(data)

----------------------------------------------------------------------------
\* TessBuilder

\* TessBuilder::new, for either storage marker. A deinterleaved builder names
\* its vertex and instance types from the start (set_attributes needs
\* V: Deinterleave<NAME>); an interleaved one starts from the unit types.
\* No pass is running.
no_pipeline ==
  /\ scopes = <<>>
  /\ pending = None
  /\ returns = <<>>
  /\ final = None

\* No Tess is mapped.
no_mapping ==
  /\ storage = None
  /\ mapped = {}
  /\ slice_result = None
  /\ written = None
  /\ seen = <<>>

Init ==
  /\ pc = "builder"
  /\ S \in {"Interleaved", "Deinterleaved"}
  /\ V = IF S = "Interleaved" THEN "()" ELSE "Vertex"
  /\ I = "()"
  /\ W = IF S = "Interleaved" THEN "()" ELSE "Vertex"
  /\ vertex_data = None
  /\ index_data = <<>>
  /\ instance_data = None
  /\ mode = "Point"
  /\ render_vert_nb = 0
  /\ render_inst_nb = 0
  /\ restart_index = None
  /\ backend_calls = <<>>
  /\ result = None
  /\ call = None
  /\ view = None
  /\ no_pipeline
  /\ no_mapping

set_mode ==
  /\ pc = "builder"
  /\ \E m \in ModeInputs : mode' = m
  /\ UNCHANGED <<pc, S, V, I, W, vertex_data, index_data, instance_data,
                 render_vert_nb, render_inst_nb, restart_index, backend_calls,
                 result, call, view,
                 pipeline, mapping>>

\* Mutant: the count is added to the one the builder holds.
set_render_vertex_nb_adding ==
  /\ pc = "builder"
  /\ \E vert_nb \in RenderNbInputs :
       /\ render_vert_nb + vert_nb <= 2 * (MaxLen + 1)
       /\ render_vert_nb' = render_vert_nb + vert_nb
  /\ UNCHANGED <<pc, S, V, I, W, vertex_data, index_data, instance_data, mode,
                 render_inst_nb, restart_index, backend_calls, result, call, view,
                 pipeline, mapping>>

set_render_vertex_nb ==
  /\ pc = "builder"
  /\ \E vert_nb \in RenderNbInputs : render_vert_nb' = vert_nb
  /\ UNCHANGED <<pc, S, V, I, W, vertex_data, index_data, instance_data, mode,
                 render_inst_nb, restart_index, backend_calls, result, call, view,
                 pipeline, mapping>>

set_render_instance_nb ==
  /\ pc = "builder"
  /\ \E inst_nb \in RenderNbInputs : render_inst_nb' = inst_nb
  /\ UNCHANGED <<pc, S, V, I, W, vertex_data, index_data, instance_data, mode,
                 render_vert_nb, restart_index, backend_calls, result, call, view,
                 pipeline, mapping>>

set_primitive_restart_index ==
  /\ pc = "builder"
  /\ \E i \in ValuesOf(I) : restart_index' = Some(i)
  /\ UNCHANGED <<pc, S, V, I, W, vertex_data, index_data, instance_data, mode,
                 render_vert_nb, render_inst_nb, backend_calls, result, call, view,
                 pipeline, mapping>>

\* Mutant: the restart index of the builder is moved over with the rest.
set_indices_keeping ==
  /\ pc = "builder"
  /\ I = "()"
  /\ \E II \in IndexInputTypes : \E indices \in Vecs(II) :
       /\ I' = II
       /\ index_data' = indices
  /\ UNCHANGED <<pc, S, V, W, vertex_data, instance_data, mode, render_vert_nb,
                 render_inst_nb, restart_index, backend_calls, result, call, view,
                 pipeline, mapping>>

\* Only on a builder whose index type is still ().
set_indices ==
  /\ pc = "builder"
  /\ I = "()"
  /\ \E II \in IndexInputTypes : \E indices \in Vecs(II) :
       /\ I' = II
       /\ index_data' = indices
  /\ restart_index' = None
  /\ UNCHANGED <<pc, S, V, W, vertex_data, instance_data, mode, render_vert_nb,
                 render_inst_nb, backend_calls, result, call, view,
                 pipeline, mapping>>

\* Interleaved, and only on a builder whose vertex type is still ().
set_vertices ==
  /\ pc = "builder"
  /\ S = "Interleaved"
  /\ V = "()"
  /\ \E VV \in VertexInputTypes : \E vertices \in Vecs(VV) :
       /\ V' = VV
       /\ vertex_data' = Some(vertices)
  /\ UNCHANGED <<pc, S, I, W, index_data, instance_data, mode, render_vert_nb,
                 render_inst_nb, restart_index, backend_calls, result, call, view,
                 pipeline, mapping>>

\* Interleaved, and only on a builder whose instance type is still ().
set_instances ==
  /\ pc = "builder"
  /\ S = "Interleaved"
  /\ W = "()"
  /\ \E WW \in VertexInputTypes : \E instances \in Vecs(WW) :
       /\ W' = WW
       /\ instance_data' = Some(instances)
  /\ UNCHANGED <<pc, S, V, I, vertex_data, index_data, mode, render_vert_nb,
                 render_inst_nb, restart_index, backend_calls, result, call, view,
                 pipeline, mapping>>

set_attributes ==
  /\ pc = "builder"
  /\ S = "Deinterleaved"
  /\ \E r \in 1..Len(vertex_desc(V)) : \E attributes \in Vecs(vertex_desc(V)[r]) :
       vertex_data' = with_attributes(vertex_data, V, vertex_desc(V)[r], attributes)
  /\ UNCHANGED <<pc, S, V, I, W, index_data, instance_data, mode, render_vert_nb,
                 render_inst_nb, restart_index, backend_calls, result, call, view,
                 pipeline, mapping>>

set_instance_attributes ==
  /\ pc = "builder"
  /\ S = "Deinterleaved"
  /\ \E r \in 1..Len(vertex_desc(W)) : \E attributes \in Vecs(vertex_desc(W)[r]) :
       instance_data' = with_attributes(instance_data, W, vertex_desc(W)[r], attributes)
  /\ UNCHANGED <<pc, S, V, I, W, vertex_data, index_data, mode, render_vert_nb,
                 render_inst_nb, restart_index, backend_calls, result, call, view,
                 pipeline, mapping>>

\* Mutant: without an explicit count, the vertex data is looked at before the
\* index data.
guess_render_vertex_len_vertices_first ==
  IF render_vert_nb = 0
  THEN IF is_some(vertex_data) THEN coherent_len(unwrap(vertex_data))
       ELSE IF index_data = <<>> THEN Err(NoData)
       ELSE Ok(Len(index_data))
  ELSE IF index_data = <<>>
       THEN IF is_some(vertex_data)
            THEN LET len == coherent_len(unwrap(vertex_data))
                 IN IF ~len.ok THEN len
                    ELSE IF render_vert_nb <= len.val THEN Ok(render_vert_nb)
                    ELSE Err(length_incoherency(render_vert_nb))
            ELSE Ok(render_vert_nb)
       ELSE IF render_vert_nb <= Len(index_data) THEN Ok(render_vert_nb)
            ELSE Err(length_incoherency(render_vert_nb))

\* Mutant: an explicit count must be strictly below the length.
guess_render_vertex_len_strict ==
  IF render_vert_nb = 0
  THEN IF index_data = <<>>
       THEN IF is_some(vertex_data) THEN coherent_len(unwrap(vertex_data))
            ELSE Err(NoData)
       ELSE Ok(Len(index_data))
  ELSE IF index_data = <<>>
       THEN IF is_some(vertex_data)
            THEN LET len == coherent_len(unwrap(vertex_data))
                 IN IF ~len.ok THEN len
                    ELSE IF render_vert_nb < len.val THEN Ok(render_vert_nb)
                    ELSE Err(length_incoherency(render_vert_nb))
            ELSE Ok(render_vert_nb)
       ELSE IF render_vert_nb < Len(index_data) THEN Ok(render_vert_nb)
            ELSE Err(length_incoherency(render_vert_nb))

\* Mutant: a builder without any data builds an empty tessellation.
guess_render_vertex_len_empty_ok ==
  IF render_vert_nb = 0
  THEN IF index_data = <<>>
       THEN IF is_some(vertex_data) THEN coherent_len(unwrap(vertex_data))
            ELSE Ok(0)
       ELSE Ok(Len(index_data))
  ELSE IF index_data = <<>>
       THEN IF is_some(vertex_data)
            THEN LET len == coherent_len(unwrap(vertex_data))
                 IN IF ~len.ok THEN len
                    ELSE IF render_vert_nb <= len.val THEN Ok(render_vert_nb)
                    ELSE Err(length_incoherency(render_vert_nb))
            ELSE Ok(render_vert_nb)
       ELSE IF render_vert_nb <= Len(index_data) THEN Ok(render_vert_nb)
            ELSE Err(length_incoherency(render_vert_nb))

\* Mutant: an explicit count on an attributeless builder is checked against
\* the (missing) vertex data.
guess_render_vertex_len_attributeless_checked ==
  IF render_vert_nb = 0
  THEN IF index_data = <<>>
       THEN IF is_some(vertex_data) THEN coherent_len(unwrap(vertex_data))
            ELSE Err(NoData)
       ELSE Ok(Len(index_data))
  ELSE IF index_data = <<>>
       THEN IF is_some(vertex_data)
            THEN LET len == coherent_len(unwrap(vertex_data))
                 IN IF ~len.ok THEN len
                    ELSE IF render_vert_nb <= len.val THEN Ok(render_vert_nb)
                    ELSE Err(length_incoherency(render_vert_nb))
            ELSE Err(length_incoherency(render_vert_nb))
       ELSE IF render_vert_nb <= Len(index_data) THEN Ok(render_vert_nb)
            ELSE Err(length_incoherency(render_vert_nb))

\* Mutant: with an index set, the vertex data is checked for coherency first.
guess_render_vertex_len_columns_checked ==
  IF index_data # <<>> /\ is_some(vertex_data) /\ ~coherent_len(unwrap(vertex_data)).ok
  THEN coherent_len(unwrap(vertex_data))
  ELSE IF render_vert_nb = 0
  THEN IF index_data = <<>>
       THEN IF is_some(vertex_data) THEN coherent_len(unwrap(vertex_data))
            ELSE Err(NoData)
       ELSE Ok(Len(index_data))
  ELSE IF index_data = <<>>
       THEN IF is_some(vertex_data)
            THEN LET len == coherent_len(unwrap(vertex_data))
                 IN IF ~len.ok THEN len
                    ELSE IF render_vert_nb <= len.val THEN Ok(render_vert_nb)
                    ELSE Err(length_incoherency(render_vert_nb))
            ELSE Ok(render_vert_nb)
       ELSE IF render_vert_nb <= Len(index_data) THEN Ok(render_vert_nb)
            ELSE Err(length_incoherency(render_vert_nb))

\* Guess how many vertices we want to render by default.
guess_render_vertex_len ==
  IF render_vert_nb = 0
  THEN IF index_data = <<>>
       THEN IF is_some(vertex_data) THEN coherent_len(unwrap(vertex_data))
            ELSE Err(NoData)
       ELSE Ok(Len(index_data))
  ELSE IF index_data = <<>>
       THEN IF is_some(vertex_data)
            THEN LET len == coherent_len(unwrap(vertex_data))
                 IN IF ~len.ok THEN len
                    ELSE IF render_vert_nb <= len.val THEN Ok(render_vert_nb)
                    ELSE Err(length_incoherency(render_vert_nb))
            ELSE Ok(render_vert_nb)
       ELSE IF render_vert_nb <= Len(index_data) THEN Ok(render_vert_nb)
            ELSE Err(length_incoherency(render_vert_nb))

\* Mutant: an explicit instance count without instance data is accepted, as an
\* explicit vertex count without vertex data is.
guess_render_instance_len_attributeless_ok ==
  IF render_inst_nb = 0
  THEN IF is_some(instance_data) THEN coherent_len(unwrap(instance_data))
       ELSE Ok(0)
  ELSE IF is_none(instance_data) THEN Ok(render_inst_nb)
       ELSE LET len == coherent_len(unwrap(instance_data))
            IN IF ~len.ok THEN len
               ELSE IF render_inst_nb <= len.val THEN Ok(render_inst_nb)
               ELSE Err(length_incoherency(render_inst_nb))

\* Mutant: a count of 0 is an explicit count like any other.
guess_render_instance_len_zero_explicit ==
  LET len == IF is_none(instance_data)
             THEN Err(attributeless_error("missing number of instances"))
             ELSE coherent_len(unwrap(instance_data))
  IN IF ~len.ok THEN len
     ELSE IF render_inst_nb <= len.val THEN Ok(render_inst_nb)
     ELSE Err(length_incoherency(render_inst_nb))

guess_render_instance_len ==
  IF render_inst_nb = 0
  THEN IF is_some(instance_data) THEN coherent_len(unwrap(instance_data))
       ELSE Ok(0)
  ELSE LET len == IF is_none(instance_data)
                  THEN Err(attributeless_error("missing number of instances"))
                  ELSE coherent_len(unwrap(instance_data))
       IN IF ~len.ok THEN len
          ELSE IF render_inst_nb <= len.val THEN Ok(render_inst_nb)
          ELSE Err(length_incoherency(render_inst_nb))

\* The arguments build hands to the backend.
build_args ==
  [op |-> "build", vertex_data |-> vertex_data, index_data |-> index_data,
   instance_data |-> instance_data, mode |-> mode, restart_index |-> restart_index]

\* What the backend's build may answer: a representation holding what it was
\* given, or its refusal.
backend_build(args) ==
  {Ok([vertex_data |-> args.vertex_data, index_data |-> args.index_data,
       instance_data |-> args.instance_data, mode |-> args.mode,
       restart_index |-> args.restart_index]),
   Err(cannot_create("backend"))}

\* A call the backend received, with what it answered.
backend_call(args, ret) == [args |-> args, ret |-> ret]

\* The Tess build wraps around the backend's answer.
Tess(repr, vert_nb, inst_nb) ==
  [repr |-> repr, render_vert_nb |-> vert_nb, render_inst_nb |-> inst_nb]

\* Mutant: the backend is asked before the counts are validated.
build_backend_first ==
  /\ pc = "builder"
  /\ pc' = "built"
  /\ \E answer \in backend_build(build_args) :
       /\ backend_calls' = Append(backend_calls, backend_call(build_args, answer))
       /\ LET vert_nb == guess_render_vertex_len
              inst_nb == guess_render_instance_len
          IN result' = Some(IF ~answer.ok THEN answer
                            ELSE IF ~vert_nb.ok THEN vert_nb
                            ELSE IF ~inst_nb.ok THEN inst_nb
                            ELSE Ok(Tess(answer.val, vert_nb.val, inst_nb.val)))
  /\ UNCHANGED <<builder, call, view,
                 pipeline, mapping>>

\* Mutant: the instance count is validated before the vertex count.
build_instances_first ==
  /\ pc = "builder"
  /\ pc' = "built"
  /\ LET inst_nb == guess_render_instance_len
     IN IF ~inst_nb.ok
        THEN /\ result' = Some(inst_nb)
             /\ UNCHANGED backend_calls
        ELSE LET vert_nb == guess_render_vertex_len
             IN IF ~vert_nb.ok
                THEN /\ result' = Some(vert_nb)
                     /\ UNCHANGED backend_calls
                ELSE \E answer \in backend_build(build_args) :
                       /\ backend_calls' =
                            Append(backend_calls, backend_call(build_args, answer))
                       /\ result' = Some(IF answer.ok
                                         THEN Ok(Tess(answer.val, vert_nb.val, inst_nb.val))
                                         ELSE answer)
  /\ UNCHANGED <<builder, call, view,
                 pipeline, mapping>>

\* build(self): the builder is moved into the call; the builder variables keep
\* what was moved, as the arguments of the call that returned `result`.
build ==
  /\ pc = "builder"
  /\ pc' = "built"
  /\ LET vert_nb == guess_render_vertex_len
     IN IF ~vert_nb.ok
        THEN /\ result' = Some(vert_nb)
             /\ UNCHANGED backend_calls
        ELSE LET inst_nb == guess_render_instance_len
             IN IF ~inst_nb.ok
                THEN /\ result' = Some(inst_nb)
                     /\ UNCHANGED backend_calls
                ELSE \E answer \in backend_build(build_args) :
                       /\ backend_calls' =
                            Append(backend_calls, backend_call(build_args, answer))
                       /\ result' = Some(IF answer.ok
                                         THEN Ok(Tess(answer.val, vert_nb.val, inst_nb.val))
                                         ELSE answer)
  /\ UNCHANGED <<builder, call, view,
                 pipeline, mapping>>

Next ==
  \/ set_mode
  \/ set_render_vertex_nb
  \/ set_render_instance_nb
  \/ set_primitive_restart_index
  \/ set_indices
  \/ set_vertices
  \/ set_instances
  \/ set_attributes
  \/ set_instance_attributes
  \/ build

Spec == Init /\ [][Next]_vars

\* A deinterleaved builder that is given its columns and built.
ColumnsInit == Init /\ S = "Deinterleaved"

ColumnsNext ==
  \/ set_attributes
  \/ set_instance_attributes
  \/ build

SpecColumns == ColumnsInit /\ [][ColumnsNext]_vars

----------------------------------------------------------------------------
\* Tess and TessView

\* The Tess that build returned.
has_tess == pc = "built" /\ is_some(result) /\ unwrap(result).ok

tess == unwrap(result).val

Tess_render_vert_nb == tess.render_vert_nb

Tess_render_inst_nb == tess.render_inst_nb

TessView(start_index, vert_nb, inst_nb) ==
  [start_index |-> start_index, vert_nb |-> vert_nb, inst_nb |-> inst_nb]

\* Vertex counts handed to the view constructors: up to one more than the
\* largest default render count a Tess can have.
ViewNbInputs == 0..(MaxLen + 2)

TessView_whole == TessView(0, Tess_render_vert_nb, Tess_render_inst_nb)

TessView_inst_whole(inst_nb) == TessView(0, Tess_render_vert_nb, inst_nb)

\* Mutant: a view of exactly the capacity is refused.
TessView_sub_strict(vert_nb) ==
  LET capacity == Tess_render_vert_nb
  IN IF vert_nb >= capacity
     THEN Err(IncorrectViewWindow(capacity, 0, vert_nb))
     ELSE Ok(TessView(0, vert_nb, Tess_render_inst_nb))

TessView_sub(vert_nb) ==
  LET capacity == Tess_render_vert_nb
  IN IF vert_nb > capacity
     THEN Err(IncorrectViewWindow(capacity, 0, vert_nb))
     ELSE Ok(TessView(0, vert_nb, Tess_render_inst_nb))

\* Mutant: an instance count above the default instance render count of the
\* Tess is refused.
TessView_inst_sub_checked(vert_nb, inst_nb) ==
  LET capacity == Tess_render_vert_nb
  IN IF vert_nb > capacity \/ inst_nb > Tess_render_inst_nb
     THEN Err(IncorrectViewWindow(capacity, 0, vert_nb))
     ELSE Ok(TessView(0, vert_nb, inst_nb))

TessView_inst_sub(vert_nb, inst_nb) ==
  LET capacity == Tess_render_vert_nb
  IN IF vert_nb > capacity
     THEN Err(IncorrectViewWindow(capacity, 0, vert_nb))
     ELSE Ok(TessView(0, vert_nb, inst_nb))

\* A panic: the call aborts instead of returning a value.
panic(msg) == [ok |-> FALSE, err |-> [kind |-> "panic", msg |-> msg]]

panicked(r) == ~r.ok /\ r.err.kind = "panic"

\* a + b on usize. On overflow the outcome depends on the build: a panic when
\* overflow checks are compiled in (None), the sum modulo 2^usize_BITS
\* otherwise.
usize_add(a, b) ==
  IF a + b <= usize_MAX
  THEN {Some(a + b)}
  ELSE {None, Some((a + b) % (2 ^ usize_BITS))}

\* a - b on usize, likewise.
usize_sub(a, b) ==
  IF a >= b
  THEN {Some(a - b)}
  ELSE {None, Some((a - b) % (2 ^ usize_BITS))}

\* Window starts and lengths handed to the view constructors: the small ones
\* around the capacity and the largest ones usize can hold.
WindowInputs == ViewNbInputs \cup {usize_MAX - 1, usize_MAX}

\* Instance counts handed to the instanced constructors.
InstNbInputs == {0, MaxLen + 1}

\* The outcomes of slice: `start > capacity || nb + start > capacity`, the sum
\* being computed only when the first test is false.
TessView_slice(start, nb) ==
  LET capacity == Tess_render_vert_nb
      error == Err(IncorrectViewWindow(capacity, start, nb))
  IN IF start > capacity
     THEN {error}
     ELSE {IF is_none(sum) THEN panic("attempt to add with overflow")
           ELSE IF unwrap(sum) > capacity THEN error
           ELSE Ok(TessView(start, nb, Tess_render_inst_nb)) :
             sum \in usize_add(nb, start)}

TessView_inst_slice(start, nb, inst_nb) ==
  LET capacity == Tess_render_vert_nb
      error == Err(IncorrectViewWindow(capacity, start, nb))
  IN IF start > capacity
     THEN {error}
     ELSE {IF is_none(sum) THEN panic("attempt to add with overflow")
           ELSE IF unwrap(sum) > capacity THEN error
           ELSE Ok(TessView(start, nb, inst_nb)) :
             sum \in usize_add(nb, start)}

\* The index ranges handed to view and inst_view: `..`, `..b`, `a..`, `a..b`,
\* `a..=b` and `..=b`. A range is a pair of bounds and nothing more: a..b and
\* a..=b with a > b are values too.
Ranges ==
  {[form |-> "RangeFull"]}
    \cup {[form |-> "RangeTo", end |-> b] : b \in WindowInputs}
    \cup {[form |-> "RangeFrom", start |-> a] : a \in WindowInputs}
    \cup {[form |-> "Range", start |-> a, end |-> b] :
             a \in WindowInputs, b \in WindowInputs}
    \cup {[form |-> "RangeInclusive", start |-> a, end |-> b] :
             a \in WindowInputs, b \in WindowInputs}
    \cup {[form |-> "RangeToInclusive", end |-> b] : b \in WindowInputs}

\* Mutant: a..=b taken as a..b.
View_view_exclusive(idx) ==
  CASE idx.form = "RangeFull" -> {Ok(TessView_whole)}
    [] idx.form = "RangeTo" -> {TessView_sub(idx.end)}
    [] idx.form = "RangeFrom" ->
         UNION {IF is_none(nb) THEN {panic("attempt to subtract with overflow")}
                ELSE TessView_slice(idx.start, unwrap(nb)) :
                  nb \in usize_sub(Tess_render_vert_nb, idx.start)}
    [] idx.form = "Range" ->
         UNION {IF is_none(nb) THEN {panic("attempt to subtract with overflow")}
                ELSE TessView_slice(idx.start, unwrap(nb)) :
                  nb \in usize_sub(idx.end, idx.start)}
    [] idx.form = "RangeInclusive" ->
         UNION {IF is_none(d) THEN {panic("attempt to subtract with overflow")}
                ELSE UNION {IF is_none(nb) THEN {panic("attempt to add with overflow")}
                            ELSE TessView_slice(idx.start, unwrap(nb)) :
                              nb \in {d}} :
                  d \in usize_sub(idx.end, idx.start)}
    [] idx.form = "RangeToInclusive" ->
         {IF is_none(nb) THEN panic("attempt to add with overflow")
          ELSE TessView_sub(unwrap(nb)) :
            nb \in usize_add(idx.end, 1)}

\* The outcomes of Tess::view(idx), one impl of View per range form.
View_view(idx) ==
  CASE idx.form = "RangeFull" -> {Ok(TessView_whole)}
    [] idx.form = "RangeTo" -> {TessView_sub(idx.end)}
    [] idx.form = "RangeFrom" ->
         UNION {IF is_none(nb) THEN {panic("attempt to subtract with overflow")}
                ELSE TessView_slice(idx.start, unwrap(nb)) :
                  nb \in usize_sub(Tess_render_vert_nb, idx.start)}
    [] idx.form = "Range" ->
         UNION {IF is_none(nb) THEN {panic("attempt to subtract with overflow")}
                ELSE TessView_slice(idx.start, unwrap(nb)) :
                  nb \in usize_sub(idx.end, idx.start)}
    [] idx.form = "RangeInclusive" ->
         UNION {IF is_none(d) THEN {panic("attempt to subtract with overflow")}
                ELSE UNION {IF is_none(nb) THEN {panic("attempt to add with overflow")}
                            ELSE TessView_slice(idx.start, unwrap(nb)) :
                              nb \in usize_add(unwrap(d), 1)} :
                  d \in usize_sub(idx.end, idx.start)}
    [] idx.form = "RangeToInclusive" ->
         {IF is_none(nb) THEN panic("attempt to add with overflow")
          ELSE TessView_sub(unwrap(nb)) :
            nb \in usize_add(idx.end, 1)}

\* The outcomes of Tess::inst_view(idx, inst_nb).
View_inst_view(idx, inst_nb) ==
  CASE idx.form = "RangeFull" -> {Ok(TessView_inst_whole(inst_nb))}
    [] idx.form = "RangeTo" -> {TessView_inst_sub(idx.end, inst_nb)}
    [] idx.form = "RangeFrom" ->
         UNION {IF is_none(nb) THEN {panic("attempt to subtract with overflow")}
                ELSE TessView_inst_slice(idx.start, unwrap(nb), inst_nb) :
                  nb \in usize_sub(Tess_render_vert_nb, idx.start)}
    [] idx.form = "Range" ->
         UNION {IF is_none(nb) THEN {panic("attempt to subtract with overflow")}
                ELSE TessView_inst_slice(idx.start, unwrap(nb), inst_nb) :
                  nb \in usize_sub(idx.end, idx.start)}
    [] idx.form = "RangeInclusive" ->
         UNION {IF is_none(d) THEN {panic("attempt to subtract with overflow")}
                ELSE UNION {IF is_none(nb) THEN {panic("attempt to add with overflow")}
                            ELSE TessView_inst_slice(idx.start, unwrap(nb), inst_nb) :
                              nb \in usize_add(unwrap(d), 1)} :
                  d \in usize_sub(idx.end, idx.start)}
    [] idx.form = "RangeToInclusive" ->
         {IF is_none(nb) THEN panic("attempt to add with overflow")
          ELSE TessView_inst_sub(unwrap(nb), inst_nb) :
            nb \in usize_add(idx.end, 1)}

\* The constructors are functions of the Tess they borrow and change nothing
\* of it. The model follows one view at a time: a constructor returns its
\* result into `view`, and the next call starts once that result has gone out
\* of scope.
drop_view ==
  /\ has_tess /\ is_some(view)
  /\ call' = None
  /\ view' = None
  /\ UNCHANGED <<pc, builder, backend_calls, result, pipeline, mapping>>

whole ==
  /\ has_tess /\ is_none(view) /\ mapped = {}
  /\ call' = Some([op |-> "whole"])
  /\ view' = Some(Ok(TessView_whole))
  /\ UNCHANGED <<pc, builder, backend_calls, result, pipeline, mapping>>

inst_whole ==
  /\ has_tess /\ is_none(view) /\ mapped = {}
  /\ \E inst_nb \in RenderNbInputs :
       /\ call' = Some([op |-> "inst_whole", inst_nb |-> inst_nb])
       /\ view' = Some(Ok(TessView_inst_whole(inst_nb)))
  /\ UNCHANGED <<pc, builder, backend_calls, result, pipeline, mapping>>

sub ==
  /\ has_tess /\ is_none(view) /\ mapped = {}
  /\ \E vert_nb \in ViewNbInputs :
       /\ call' = Some([op |-> "sub", vert_nb |-> vert_nb])
       /\ view' = Some(TessView_sub(vert_nb))
  /\ UNCHANGED <<pc, builder, backend_calls, result, pipeline, mapping>>

inst_sub ==
  /\ has_tess /\ is_none(view) /\ mapped = {}
  /\ \E vert_nb \in ViewNbInputs : \E inst_nb \in RenderNbInputs :
       /\ call' = Some([op |-> "inst_sub", vert_nb |-> vert_nb, inst_nb |-> inst_nb])
       /\ view' = Some(TessView_inst_sub(vert_nb, inst_nb))
  /\ UNCHANGED <<pc, builder, backend_calls, result, pipeline, mapping>>

slice ==
  /\ has_tess /\ is_none(view) /\ mapped = {}
  /\ \E start \in WindowInputs : \E nb \in WindowInputs :
       /\ call' = Some([op |-> "slice", start |-> start, nb |-> nb])
       /\ \E outcome \in TessView_slice(start, nb) : view' = Some(outcome)
  /\ UNCHANGED <<pc, builder, backend_calls, result, pipeline, mapping>>

inst_slice ==
  /\ has_tess /\ is_none(view) /\ mapped = {}
  /\ \E start \in WindowInputs : \E nb \in WindowInputs : \E inst_nb \in InstNbInputs :
       /\ call' = Some([op |-> "inst_slice", start |-> start, nb |-> nb,
                        inst_nb |-> inst_nb])
       /\ \E outcome \in TessView_inst_slice(start, nb, inst_nb) :
            view' = Some(outcome)
  /\ UNCHANGED <<pc, builder, backend_calls, result, pipeline, mapping>>

Tess_view ==
  /\ has_tess /\ is_none(view) /\ mapped = {}
  /\ \E idx \in Ranges :
       /\ call' = Some([op |-> "view", idx |-> idx])
       /\ \E outcome \in View_view(idx) : view' = Some(outcome)
  /\ UNCHANGED <<pc, builder, backend_calls, result, pipeline, mapping>>

Tess_inst_view ==
  /\ has_tess /\ is_none(view) /\ mapped = {}
  /\ \E idx \in Ranges : \E inst_nb \in InstNbInputs :
       /\ call' = Some([op |-> "inst_view", idx |-> idx, inst_nb |-> inst_nb])
       /\ \E outcome \in View_inst_view(idx, inst_nb) : view' = Some(outcome)
  /\ UNCHANGED <<pc, builder, backend_calls, result, pipeline, mapping>>

\* The data a deinterleaved builder can hold for a vertex type: one column per
\* field, each set from some Vec or left as DeinterleavedData::new().
Columns(T) ==
  LET column(r) ==
        {[raw |-> raw_bytes(a, size_of(vertex_desc(T)[r])), len |-> Len(a)] :
           a \in Vecs(vertex_desc(T)[r])}
  IN {c \in [1..Len(vertex_desc(T)) -> UNION {column(r) : r \in 1..Len(vertex_desc(T))}] :
        \A r \in 1..Len(vertex_desc(T)) : c[r] \in column(r)}

\* The states in which build has just returned a Tess: the builder is any that
\* the setters can produce, validated by build as above and accepted by the
\* backend.
ViewInit ==
  /\ pc = "built"
  /\ S \in {"Interleaved", "Deinterleaved"}
  /\ V \in IF S = "Interleaved" THEN VertexTypes ELSE {"Vertex"}
  /\ I \in IndexTypes
  /\ W \in IF S = "Interleaved" THEN VertexTypes ELSE {"Vertex"}
  /\ vertex_data \in
       IF S = "Interleaved"
       THEN (IF V = "()" THEN {None} ELSE {}) \cup {Some(v) : v \in Vecs(V)}
       ELSE {None} \cup {Some(c) : c \in Columns(V)}
  /\ index_data \in IF I = "()" THEN {<<>>} ELSE Vecs(I)
  /\ instance_data \in
       IF S = "Interleaved"
       THEN (IF W = "()" THEN {None} ELSE {}) \cup {Some(w) : w \in Vecs(W)}
       ELSE {None}
  /\ mode = "Point"
  /\ render_vert_nb \in RenderNbInputs
  /\ render_inst_nb \in RenderNbInputs
  /\ restart_index = None
  /\ guess_render_vertex_len.ok
  /\ guess_render_instance_len.ok
  /\ \E answer \in backend_build(build_args) :
       /\ answer.ok
       /\ backend_calls = <<backend_call(build_args, answer)>>
       /\ result = Some(Ok(Tess(answer.val, guess_render_vertex_len.val,
                                guess_render_instance_len.val)))
  /\ call = None
  /\ view = None
  /\ no_pipeline
  /\ no_mapping

ViewNext ==
  \/ whole
  \/ inst_whole
  \/ sub
  \/ inst_sub
  \/ slice
  \/ inst_slice
  \/ Tess_view
  \/ Tess_inst_view
  \/ drop_view

SpecView == ViewInit /\ [][ViewNext]_vars

----------------------------------------------------------------------------
\* The gates: with_framebuffer, ShadingGate::shade, and the render and
\* tessellation gates below it

\* Backend calls of one pass: the most a pass issues in the model.
MaxBackendCalls == 6

\* The error of the backend (B::Err), and the error type E of the callbacks,
\* which is convertible from it (E: From<B::Err>) and has values of its own.
PipelineError == [type |-> "B::Err", kind |-> "PipelineError"]

from(e) == [type |-> "E", from |-> e]

UserError == [type |-> "E", kind |-> "user"]

\* A scope is the run of one callback; `id` names the gate handle it received.
scope(gate, id) == [gate |-> gate, id |-> id]

top == scopes[Len(scopes)]

\* Handles are numbered in the order in which they are created.
fresh == Len(scopes) + Len(returns) + 1

\* A call the backend receives through the gate whose handle is `id`, with the
\* scopes that were open when it was issued.
gate_call(op, id) == [op |-> op, gate |-> id, scopes |-> scopes]

\* What the callback running in the innermost scope can do next: it issues its
\* gate calls one after the other through `?` (as the tail expression in the
\* example), so that an error a call returned is what the callback returns.
running == scopes # <<>> /\ is_none(pending)

can_call == running /\ Len(backend_calls) < MaxBackendCalls

\* What a callback returns: the error it received, or else Ok or an error of
\* its own.
callback_results ==
  IF is_some(pending) THEN {Err(unwrap(pending))} ELSE {Ok("()"), Err(UserError)}

\* The backend's part of with_framebuffer: it begins the pass before it calls
\* f and ends it when f has returned.
backend_begin_pass == [op |-> "begin_pass", gate |-> 0, scopes |-> <<>>]

backend_end_pass == [op |-> "end_pass", gate |-> 0, scopes |-> <<>>]

\* Context::with_framebuffer, up to the call of f: f receives the handle of
\* the framebuffer scope, the gate that shade is called on.
with_framebuffer ==
  /\ pc = "gate" /\ scopes = <<>> /\ is_none(final)
  /\ backend_calls' = Append(backend_calls, backend_begin_pass)
  /\ scopes' = <<scope("ShadingGate", fresh)>>
  /\ UNCHANGED <<pc, builder, result, call, view, pending, returns, final, mapping>>

\* Mutant: the program is not applied before the callback runs.
shade_unapplied ==
  /\ can_call /\ top.gate = "ShadingGate"
  /\ scopes' = Append(scopes, scope("RenderGate", fresh))
  /\ UNCHANGED <<pc, builder, backend_calls, result, call, view, pending, returns,
                 final, mapping>>

\* Mutant: the program is applied again once the RenderGate is made.
shade_reapplied ==
  /\ can_call /\ top.gate = "ShadingGate"
  /\ backend_calls' =
       backend_calls \o <<gate_call("apply_shader_program", top.id),
                          gate_call("apply_shader_program", top.id)>>
  /\ scopes' = Append(scopes, scope("RenderGate", fresh))
  /\ UNCHANGED <<pc, builder, result, call, view, pending, returns, final, mapping>>

\* Mutant: shade borrows the gate shared (&self), so that the handle of an
\* outer scope can be used while a scope below it is open.
shade_shared ==
  /\ can_call
  /\ \E n \in 1..Len(scopes) :
       /\ scopes[n].gate = "ShadingGate"
       /\ backend_calls' =
            Append(backend_calls, gate_call("apply_shader_program", scopes[n].id))
  /\ scopes' = Append(scopes, scope("RenderGate", fresh))
  /\ UNCHANGED <<pc, builder, result, call, view, pending, returns, final, mapping>>

\* ShadingGate::shade, up to the call of f: `&mut self` is the gate of the
\* innermost scope (the borrow of an outer one is held by the scopes below it);
\* the program is applied, then the RenderGate is made and handed to f.
shade ==
  /\ can_call /\ top.gate = "ShadingGate"
  /\ backend_calls' = Append(backend_calls, gate_call("apply_shader_program", top.id))
  /\ scopes' = Append(scopes, scope("RenderGate", fresh))
  /\ UNCHANGED <<pc, builder, result, call, view, pending, returns, final, mapping>>

\* RenderGate::render, up to the call of its callback: the render state is
\* applied, then the TessGate is handed to the callback.
render ==
  /\ can_call /\ top.gate = "RenderGate"
  /\ backend_calls' = Append(backend_calls, gate_call("apply_render_state", top.id))
  /\ scopes' = Append(scopes, scope("TessGate", fresh))
  /\ UNCHANGED <<pc, builder, result, call, view, pending, returns, final, mapping>>

\* TessGate::render: the draw call for a Tess or a view of it (borrowed shared,
\* so that no mapped slice of it is alive), which the backend accepts or
\* refuses.
draw ==
  /\ can_call /\ top.gate = "TessGate"
  /\ mapped = {}
  /\ \E r \in {Ok("()"), Err(from(PipelineError))} :
       /\ backend_calls' =
            Append(backend_calls, [op |-> "draw", gate |-> top.id,
                                   scopes |-> scopes, ret |-> r])
       /\ pending' = IF r.ok THEN None ELSE Some(r.err)
  /\ UNCHANGED <<pc, builder, result, call, view, scopes, returns, final, mapping>>

\* What a gate call hands back to the callback that made it.
gate_return(op, r) == [op |-> op, gate |-> top.id, callback |-> r, ret |-> r]

\* Mutant: shade reports success whatever its callback returned.
shade_return_swallowed ==
  /\ scopes # <<>> /\ top.gate = "RenderGate"
  /\ \E r \in callback_results :
       /\ returns' = Append(returns, [gate_return("shade", r) EXCEPT !.ret = Ok("()")])
       /\ pending' = None
  /\ scopes' = SubSeq(scopes, 1, Len(scopes) - 1)
  /\ UNCHANGED <<pc, builder, backend_calls, result, call, view, final, mapping>>

\* ShadingGate::shade, from the return of f: the call of f is its tail
\* expression, so that it returns what f returned and does nothing after it.
shade_return ==
  /\ scopes # <<>> /\ top.gate = "RenderGate"
  /\ \E r \in callback_results :
       /\ returns' = Append(returns, gate_return("shade", r))
       /\ pending' = IF r.ok THEN None ELSE Some(r.err)
  /\ scopes' = SubSeq(scopes, 1, Len(scopes) - 1)
  /\ UNCHANGED <<pc, builder, backend_calls, result, call, view, final, mapping>>

\* RenderGate::render, from the return of its callback.
render_return ==
  /\ scopes # <<>> /\ top.gate = "TessGate"
  /\ \E r \in callback_results :
       /\ returns' = Append(returns, gate_return("render", r))
       /\ pending' = IF r.ok THEN None ELSE Some(r.err)
  /\ scopes' = SubSeq(scopes, 1, Len(scopes) - 1)
  /\ UNCHANGED <<pc, builder, backend_calls, result, call, view, final, mapping>>

\* The result of with_framebuffer is a Result<(), B::Err>, that of f a
\* Result<(), Err> with Err: From<B::Err>: the error of the backend that f
\* returned converted comes out as that error, an error of f's own as an error
\* of the backend.
with_framebuffer_result(r) ==
  IF r.ok THEN Ok("()")
  ELSE IF "from" \in DOMAIN r.err THEN Err(r.err.from)
  ELSE Err(PipelineError)

\* Mutant: the pass is ended only when f returned Ok.
with_framebuffer_return_unended ==
  /\ scopes # <<>> /\ top.gate = "ShadingGate"
  /\ \E r \in callback_results :
       /\ backend_calls' = IF r.ok THEN Append(backend_calls, backend_end_pass)
                           ELSE backend_calls
       /\ returns' = Append(returns, [gate_return("with_framebuffer", r)
                                        EXCEPT !.ret = with_framebuffer_result(r)])
       /\ final' = Some(with_framebuffer_result(r))
  /\ scopes' = <<>>
  /\ pending' = None
  /\ UNCHANGED <<pc, builder, result, call, view, mapping>>

\* Context::with_framebuffer, from the return of f.
with_framebuffer_return ==
  /\ scopes # <<>> /\ top.gate = "ShadingGate"
  /\ \E r \in callback_results :
       /\ backend_calls' = Append(backend_calls, backend_end_pass)
       /\ returns' = Append(returns, [gate_return("with_framebuffer", r)
                                        EXCEPT !.ret = with_framebuffer_result(r)])
       /\ final' = Some(with_framebuffer_result(r))
  /\ scopes' = <<>>
  /\ pending' = None
  /\ UNCHANGED <<pc, builder, result, call, view, mapping>>

\* A Context on which no pass has run yet.
GateInit ==
  /\ pc = "gate"
  /\ S = "Interleaved" /\ V = "()" /\ I = "()" /\ W = "()"
  /\ vertex_data = None /\ index_data = <<>> /\ instance_data = None
  /\ mode = "Point" /\ render_vert_nb = 0 /\ render_inst_nb = 0
  /\ restart_index = None
  /\ backend_calls = <<>>
  /\ result = None /\ call = None /\ view = None
  /\ no_pipeline
  /\ no_mapping

GateNext ==
  \/ with_framebuffer
  \/ shade
  \/ render
  \/ draw
  \/ shade_return
  \/ render_return
  \/ with_framebuffer_return

SpecGate == GateInit /\ [][GateNext]_vars

\* The gates are plain calls and returns on one thread: a callback that can
\* take its next step takes it.
SpecGateFair == SpecGate /\ WF_vars(GateNext)

----------------------------------------------------------------------------
\* Mapping the buffers of a Tess: vertices, indices, instances and their _mut
\* forms

\* Reads of a buffer kept in `seen` after a write to it.
MaxReads == 2

CannotMap == [kind |-> "CannotMap"]

ForbiddenAttributelessMapping == [kind |-> "ForbiddenAttributelessMapping"]

\* The buffers the backend made of what build gave it: the vertex set (one
\* buffer per field when deinterleaved), the index set, the instance set.
buffers_of(repr) ==
  LET set(target, data, T) ==
        IF is_none(data) THEN {}
        ELSE IF S = "Interleaved" THEN {<<<<target>>, unwrap(data)>>}
        ELSE {<<<<target, vertex_desc(T)[r]>>,
                [n \in 1..unwrap(data)[r].len |-> vertex_desc(T)[r]]>> :
                r \in 1..Len(unwrap(data))}
      all == set("vertices", repr.vertex_data, V)
               \cup (IF repr.index_data = <<>> THEN {}
                     ELSE {<<<<"indices">>, repr.index_data>>})
               \cup set("instances", repr.instance_data, W)
  IN [b \in {x[1] : x \in all} |-> (CHOOSE x \in all : x[1] = b)[2]]

\* The buffers a mapping method can name: the target, and the field NAME of
\* the deinterleaved methods.
targets(target) ==
  IF target = "indices" \/ S = "Interleaved" THEN {<<target>>}
  ELSE {<<target, VertexFields[r]>> : r \in 1..Len(VertexFields)}

\* A value a caller can store in an element of a slice, besides the one the
\* element holds.
other_value(buffer) == IF buffer = <<"indices">> THEN 1 ELSE "w"

\* The mapped slice the backend hands out: the content of the buffer, mapped
\* until the slice is dropped.
slice_of(buffer, mutable) ==
  [buffer |-> buffer, mutable |-> mutable, content |-> storage[buffer]]

\* Mutant: the method borrows the Tess shared (&'a self): a slice can be
\* asked for while read-only slices are alive.
map_slice_shared(target, mutable) ==
  /\ has_tess /\ is_none(view) /\ \A s \in mapped : ~s.mutable /\ ~mutable
  /\ \E buffer \in targets(target) :
       IF buffer \in DOMAIN storage
       THEN \E answer \in {Ok("()"), Err(CannotMap)} :
              /\ slice_result' = Some(answer)
              /\ mapped' = IF answer.ok THEN mapped \cup {slice_of(buffer, mutable)}
                           ELSE mapped
       ELSE /\ slice_result' = Some(Err(IF target = "vertices"
                                        THEN ForbiddenAttributelessMapping
                                        ELSE CannotMap))
            /\ mapped' = mapped
  /\ UNCHANGED <<pc, builder, backend_calls, result, call, view, pipeline,
                 storage, written, seen>>

\* Tess::vertices, indices, instances and their _mut forms: each takes
\* `&'a mut self` and returns what the backend maps, which lives for 'a.
map_slice(target, mutable) ==
  /\ has_tess /\ is_none(view) /\ mapped = {}
  /\ \E buffer \in targets(target) :
       IF buffer \in DOMAIN storage
       THEN \E answer \in {Ok("()"), Err(CannotMap)} :
              /\ slice_result' = Some(answer)
              /\ mapped' = IF answer.ok THEN {slice_of(buffer, mutable)} ELSE {}
       ELSE /\ slice_result' = Some(Err(IF target = "vertices"
                                        THEN ForbiddenAttributelessMapping
                                        ELSE CannotMap))
            /\ mapped' = {}
  /\ UNCHANGED <<pc, builder, backend_calls, result, call, view, pipeline,
                 storage, written, seen>>

Tess_vertices == map_slice("vertices", FALSE)

Tess_vertices_mut == map_slice("vertices", TRUE)

Tess_indices == map_slice("indices", FALSE)

Tess_indices_mut == map_slice("indices", TRUE)

Tess_instances == map_slice("instances", FALSE)

Tess_instances_mut == map_slice("instances", TRUE)

\* Mutant: storing through the slice grows it, as pushing to a Vec would.
deref_mut_growing ==
  \E s \in mapped :
    /\ s.mutable /\ Len(s.content) <= MaxLen
    /\ LET content == Append(s.content, other_value(s.buffer))
       IN /\ mapped' = (mapped \ {s}) \cup {[s EXCEPT !.content = content]}
          /\ written' = Some([buffer |-> s.buffer, content |-> content])
    /\ seen' = <<>>
    /\ UNCHANGED <<pc, builder, backend_calls, result, call, view, pipeline,
                   storage, slice_result>>

\* DerefMut of VerticesMut, IndicesMut and InstancesMut: a `&mut [T]`, through
\* which the caller stores a value in an element of the slice.
deref_mut ==
  \E s \in mapped :
    /\ s.mutable
    /\ \E n \in 1..Len(s.content) : \E v \in {s.content[n], other_value(s.buffer)} :
         LET content == [s.content EXCEPT ![n] = v]
         IN /\ mapped' = (mapped \ {s}) \cup {[s EXCEPT !.content = content]}
            /\ written' = Some([buffer |-> s.buffer, content |-> content])
    /\ seen' = <<>>
    /\ UNCHANGED <<pc, builder, backend_calls, result, call, view, pipeline,
                   storage, slice_result>>

\* Deref of the six slice types: a `&[T]`, the content the caller reads. The
\* reads of the buffer last written are kept in `seen`.
deref ==
  \E s \in mapped :
    /\ Len(seen) < MaxReads
    /\ seen' = IF is_some(written) /\ unwrap(written).buffer = s.buffer
               THEN Append(seen, [buffer |-> s.buffer, mutable |-> s.mutable,
                                  content |-> s.content])
               ELSE seen
    /\ UNCHANGED <<pc, builder, backend_calls, result, call, view, pipeline,
                   storage, mapped, slice_result, written>>

\* Mutant: what was stored through a mutable slice is lost when it is dropped.
drop_slice_unflushed ==
  \E s \in mapped :
    /\ mapped' = mapped \ {s}
    /\ slice_result' = None
    /\ UNCHANGED <<pc, builder, backend_calls, result, call, view, pipeline,
                   storage, written, seen>>

\* The end of the borrow 'a: the slice is dropped and the backend unmaps the
\* buffer, which holds what was stored through the slice.
drop_slice ==
  \E s \in mapped :
    /\ mapped' = mapped \ {s}
    /\ storage' = IF s.mutable THEN [storage EXCEPT ![s.buffer] = s.content]
                  ELSE storage
    /\ slice_result' = None
    /\ UNCHANGED <<pc, builder, backend_calls, result, call, view, pipeline,
                   written, seen>>

\* A Tess that build has just returned, in the hands of the callback of a
\* render gate: the pass, the program scope and the render-state scope are
\* open. The counts of the Tess are the ones build infers, and the Tess has at
\* most two buffers: vertices with indices or with instances, or two fields.
MapInit ==
  /\ pc = "built"
  /\ S \in {"Interleaved", "Deinterleaved"}
  /\ V = "Vertex"
  /\ I \in IndexTypes
  /\ W \in IF S = "Interleaved" THEN VertexTypes ELSE {"Vertex"}
  /\ vertex_data \in
       IF S = "Interleaved" THEN {Some(v) : v \in Vecs(V)}
       ELSE {None} \cup {Some(c) : c \in Columns(V)}
  /\ index_data \in IF I = "()" THEN {<<>>} ELSE Vecs(I)
  /\ instance_data \in
       IF S = "Interleaved" /\ W # "()" THEN {Some(w) : w \in Vecs(W)}
       ELSE {None}
  /\ mode = "Point"
  /\ render_vert_nb = 0
  /\ render_inst_nb = 0
  /\ restart_index = None
  /\ guess_render_vertex_len.ok
  /\ guess_render_instance_len.ok
  /\ \E answer \in backend_build(build_args) :
       /\ answer.ok
       /\ backend_calls =
            <<backend_call(build_args, answer),
              backend_begin_pass,
              [op |-> "apply_shader_program", gate |-> 1,
               scopes |-> <<scope("ShadingGate", 1)>>],
              [op |-> "apply_render_state", gate |-> 2,
               scopes |-> <<scope("ShadingGate", 1), scope("RenderGate", 2)>>]>>
       /\ result = Some(Ok(Tess(answer.val, guess_render_vertex_len.val,
                                guess_render_instance_len.val)))
       /\ storage = buffers_of(answer.val)
       /\ Cardinality(DOMAIN storage) <= 2
  /\ call = None
  /\ view = None
  /\ scopes = <<scope("ShadingGate", 1), scope("RenderGate", 2), scope("TessGate", 3)>>
  /\ pending = None
  /\ returns = <<>>
  /\ final = None
  /\ mapped = {}
  /\ slice_result = None
  /\ written = None
  /\ seen = <<>>

MapNext ==
  \/ Tess_vertices
  \/ Tess_vertices_mut
  \/ Tess_indices
  \/ Tess_indices_mut
  \/ Tess_instances
  \/ Tess_instances_mut
  \/ deref_mut
  \/ deref
  \/ drop_slice
  \/ whole
  \/ sub
  \/ drop_view
  \/ draw

SpecMap == MapInit /\ [][MapNext]_vars

----------------------------------------------------------------------------
\* Properties of build

built == pc = "built"

\* What build returned.
returned == unwrap(result)

\* The backend's build has been called, and what it answered.
backend_asked == backend_calls # <<>>

backend_accepted == backend_asked /\ backend_calls[1].ret.ok

\* The columns of a deinterleaved vertex set do not all have the same length.
incoherent(data) ==
  /\ S = "Deinterleaved"
  /\ is_some(data)
  /\ \E a, b \in 1..Len(unwrap(data)) : unwrap(data)[a].len # unwrap(data)[b].len

\* The element count of a vertex set whose columns are coherent.
length(data) ==
  IF S = "Interleaved" THEN Len(unwrap(data))
  ELSE IF unwrap(data) = <<>> THEN 0 ELSE unwrap(data)[1].len

\* The instance count of the builder is one that build accepts.
instance_count_valid ==
  IF is_none(instance_data) THEN render_inst_nb = 0
  ELSE ~incoherent(instance_data) /\ render_inst_nb <= length(instance_data)

\* The vertex count of the builder is one that build accepts: at most the
\* index count when there are indices, else at most the vertex count when
\* there are vertices, else any count but 0.
vertex_count_valid ==
  IF index_data # <<>> THEN render_vert_nb <= Len(index_data)
  ELSE IF is_none(vertex_data) THEN render_vert_nb # 0
  ELSE ~incoherent(vertex_data) /\ render_vert_nb <= length(vertex_data)

\* C1: an interleaved builder with vertex data of length n (n = 0 included), an
\* empty index set and no explicit vertex render count passes the vertex count
\* validation (the backend is asked whenever the instance count is valid too),
\* and whenever the backend accepts, build returns a Tess whose render_vert_nb
\* is n.
C1_InterleavedVertexLen ==
  (built /\ S = "Interleaved" /\ is_some(vertex_data) /\ index_data = <<>>
     /\ render_vert_nb = 0)
  => /\ instance_count_valid => backend_asked
     /\ backend_accepted =>
          returned.ok /\ returned.val.render_vert_nb = Len(unwrap(vertex_data))

C1_Witness ==
  /\ built /\ S = "Interleaved" /\ index_data = <<>> /\ render_vert_nb = 0
  /\ vertex_data = Some(<<>>)
  /\ backend_accepted
  /\ returned.ok /\ returned.val.render_vert_nb = 0

\* C2, as stated: for every index set given to set_indices, the empty one
\* included, on a builder with no explicit vertex render count, the Tess build
\* returns has render_vert_nb = idx.len(). (I # "()" only after set_indices.)
C2_Original ==
  (built /\ I # "()" /\ render_vert_nb = 0 /\ returned.ok)
  => returned.val.render_vert_nb = Len(index_data)

\* C2, amended: for every non-empty index set on a builder with no explicit
\* vertex render count, the vertex count validation passes and the Tess build
\* returns has render_vert_nb = idx.len(), whatever the vertex data; an empty
\* index set counts as no index set: the count is then the length of the
\* vertex data.
C2_IndexLen ==
  /\ (built /\ index_data # <<>> /\ render_vert_nb = 0)
     => /\ instance_count_valid => backend_asked
        /\ returned.ok => returned.val.render_vert_nb = Len(index_data)
  /\ (built /\ I # "()" /\ index_data = <<>> /\ render_vert_nb = 0 /\ returned.ok)
     => /\ is_some(vertex_data)
        /\ returned.val.render_vert_nb = length(vertex_data)

C2_Witness ==
  /\ built /\ index_data # <<>> /\ render_vert_nb = 0
  /\ is_some(vertex_data) /\ ~incoherent(vertex_data)
  /\ length(vertex_data) # Len(index_data)
  /\ returned.ok /\ returned.val.render_vert_nb = Len(index_data)

\* C3, as stated: with vertex data of coherent length len and no indices, for
\* every k given to set_render_vertex_nb: k > len makes build fail with
\* LengthIncoherency, and for every k <= len the vertex count validation
\* passes and the Tess reports k. (After set_render_vertex_nb(k) the builder
\* holds render_vert_nb = k, k = 0 included.)
C3_Original ==
  (built /\ is_some(vertex_data) /\ ~incoherent(vertex_data) /\ index_data = <<>>)
  => IF render_vert_nb > length(vertex_data)
     THEN ~returned.ok /\ returned.err.kind = "LengthIncoherency"
     ELSE /\ instance_count_valid => backend_asked
          /\ returned.ok => returned.val.render_vert_nb = render_vert_nb

\* C3, amended: the same for every k >= 1; k = 0 is no explicit count, and the
\* Tess then reports len.
C3_ExplicitVertexCount ==
  (built /\ is_some(vertex_data) /\ ~incoherent(vertex_data) /\ index_data = <<>>)
  => IF render_vert_nb > length(vertex_data)
     THEN returned = Err(length_incoherency(render_vert_nb)) /\ ~backend_asked
     ELSE /\ instance_count_valid => backend_asked
          /\ returned.ok =>
               returned.val.render_vert_nb =
                 IF render_vert_nb >= 1 THEN render_vert_nb ELSE length(vertex_data)

C3_Witness ==
  /\ built /\ is_some(vertex_data) /\ ~incoherent(vertex_data) /\ index_data = <<>>
  /\ render_vert_nb >= 1 /\ render_vert_nb < length(vertex_data)
  /\ returned.ok /\ returned.val.render_vert_nb = render_vert_nb

\* C4: a deinterleaved builder with two vertex columns of different lengths
\* fails to build with LengthIncoherency, whatever its index set and explicit
\* render count, and the backend is not asked.
C4_IncoherentColumnsRejected ==
  (built /\ incoherent(vertex_data))
  => /\ ~returned.ok
     /\ returned.err.kind = "LengthIncoherency"
     /\ ~backend_asked

\* C5: build returns NoData exactly when the builder has no vertex data, no
\* index data and no explicit vertex render count.
C5_NoDataExactly ==
  built =>
    (returned = Err(NoData)
       <=> (is_none(vertex_data) /\ index_data = <<>> /\ render_vert_nb = 0))

\* A freshly created builder, built without any setter call.
C5_Witness ==
  /\ built
  /\ is_none(vertex_data) /\ index_data = <<>> /\ is_none(instance_data)
  /\ I = "()" /\ mode = "Point" /\ render_vert_nb = 0 /\ render_inst_nb = 0
  /\ is_none(restart_index)
  /\ returned = Err(NoData)

C7_Original ==
  (built /\ is_none(vertex_data) /\ index_data = <<>>)
  => /\ instance_count_valid => backend_asked
     /\ returned.ok => returned.val.render_vert_nb = render_vert_nb

\* C7, amended: the same for every k >= 1; with k = 0 build fails with NoData.
C7_AttributelessCount ==
  (built /\ is_none(vertex_data) /\ index_data = <<>>)
  => IF render_vert_nb >= 1
     THEN /\ instance_count_valid => backend_asked
          /\ returned.ok => returned.val.render_vert_nb = render_vert_nb
     ELSE returned = Err(NoData)

C7_Witness ==
  /\ built /\ is_none(vertex_data) /\ index_data = <<>>
  /\ render_vert_nb = MaxLen + 1
  /\ returned.ok /\ returned.val.render_vert_nb = render_vert_nb

\* C8: when build fails validation (NoData, LengthIncoherency,
\* AttributelessError) the backend has not been called; the backend is called
\* at most once, only with valid counts, and an error returned after it was
\* called is the backend's own.
C8_ValidationBeforeBackend ==
  built =>
    /\ Len(backend_calls) <= 1
    /\ (~returned.ok
          /\ returned.err.kind \in {"NoData", "LengthIncoherency", "AttributelessError"})
       => ~backend_asked
    /\ backend_asked => vertex_count_valid /\ instance_count_valid
    /\ (backend_asked /\ ~returned.ok) => returned = backend_calls[1].ret

C8_Witness ==
  /\ built /\ vertex_count_valid /\ ~instance_count_valid
  /\ ~returned.ok /\ returned.err.kind = "AttributelessError"
  /\ ~backend_asked

\* The error of the vertex count validation, and of the instance count one.
vertex_count_error ==
  IF index_data = <<>> /\ is_none(vertex_data) THEN NoData
  ELSE IF index_data = <<>> /\ incoherent(vertex_data)
       THEN length_incoherency(unwrap(vertex_data)[1].len)
       ELSE length_incoherency(render_vert_nb)

instance_count_error ==
  IF is_none(instance_data) THEN attributeless_error("missing number of instances")
  ELSE IF incoherent(instance_data)
       THEN length_incoherency(unwrap(instance_data)[1].len)
       ELSE length_incoherency(render_inst_nb)

\* C9, as stated (its example): an explicit instance count without instance
\* data, together with incoherent vertex columns, yields AttributelessError.
C9_Original ==
  (built /\ render_inst_nb # 0 /\ is_none(instance_data) /\ incoherent(vertex_data))
  => ~returned.ok /\ returned.err.kind = "AttributelessError"

\* C9, amended: build validates the vertex render count (the coherency of the
\* vertex columns is part of it, and only when the index set is empty), then
\* the instance render count (the coherency of the instance columns is part of
\* it), then asks the backend; the error returned is that of the first of
\* these to fail.
C9_StepOrder ==
  built =>
    IF ~vertex_count_valid
    THEN returned = Err(vertex_count_error) /\ ~backend_asked
    ELSE IF ~instance_count_valid
         THEN returned = Err(instance_count_error) /\ ~backend_asked
         ELSE /\ backend_asked
              /\ ~returned.ok => returned = backend_calls[1].ret

\* Both the vertex count and the instance count are invalid.
C9_Witness ==
  /\ built /\ render_inst_nb # 0 /\ is_none(instance_data)
  /\ incoherent(vertex_data) /\ index_data = <<>>
  /\ returned = Err(length_incoherency(unwrap(vertex_data)[1].len))

----------------------------------------------------------------------------
\* Properties of the views

called(op) == is_some(call) /\ unwrap(call).op = op

\* C10: sub(tess, n) with c = tess.render_vert_nb(): for every n <= c it
\* returns the view (start_index 0, vert_nb n, inst_nb tess.render_inst_nb()),
\* for every n > c the error IncorrectViewWindow{capacity: c, start: 0, nb: n};
\* inst_sub likewise, with the caller's inst_nb.
C10_Sub ==
  (called("sub") \/ called("inst_sub"))
  => LET n == unwrap(call).vert_nb
         c == tess.render_vert_nb
         k == IF called("sub") THEN tess.render_inst_nb ELSE unwrap(call).inst_nb
     IN view = Some(IF n <= c
                    THEN Ok([start_index |-> 0, vert_nb |-> n, inst_nb |-> k])
                    ELSE Err([kind |-> "IncorrectViewWindow", capacity |-> c,
                              start |-> 0, nb |-> n]))

\* sub with n = c on a Tess that has vertices and instances.
C10_Witness ==
  /\ called("sub")
  /\ unwrap(call).vert_nb = tess.render_vert_nb
  /\ tess.render_vert_nb > 0 /\ tess.render_inst_nb > 0
  /\ unwrap(view).ok /\ unwrap(view).val.vert_nb = tess.render_vert_nb

\* C11: slice(tess, start, n) and inst_slice on a Tess with default vertex
\* render count c succeed if and only if start <= c and start + n <= c; on
\* success the view is (start_index = start, vert_nb = n), on failure the
\* result is the error IncorrectViewWindow{capacity: c, start, nb: n}.
C11_Slice ==
  (called("slice") \/ called("inst_slice"))
  => LET start == unwrap(call).start
         n == unwrap(call).nb
         c == tess.render_vert_nb
         r == unwrap(view)
     IN /\ r.ok <=> (start <= c /\ start + n <= c)
        /\ r.ok => r.val.start_index = start /\ r.val.vert_nb = n
        /\ ~r.ok => r.err = [kind |-> "IncorrectViewWindow", capacity |-> c,
                              start |-> start, nb |-> n]

\* The same statement for the windows whose end start + n fits in usize.
C11_SliceNoOverflow ==
  ((called("slice") \/ called("inst_slice"))
     /\ unwrap(call).start + unwrap(call).nb <= usize_MAX)
  => LET start == unwrap(call).start
         n == unwrap(call).nb
         c == tess.render_vert_nb
         r == unwrap(view)
     IN /\ r.ok <=> (start <= c /\ start + n <= c)
        /\ r.ok => r.val.start_index = start /\ r.val.vert_nb = n
        /\ ~r.ok => r.err = [kind |-> "IncorrectViewWindow", capacity |-> c,
                              start |-> start, nb |-> n]

\* The window a constructor call asks for: its first vertex and the vertex
\* after its last, as the numbers the caller wrote (no machine arithmetic).
window ==
  LET k == unwrap(call)
      c == tess.render_vert_nb
  IN CASE k.op \in {"whole", "inst_whole"} -> [start |-> 0, end |-> c]
       [] k.op \in {"sub", "inst_sub"} -> [start |-> 0, end |-> k.vert_nb]
       [] k.op \in {"slice", "inst_slice"} ->
            [start |-> k.start, end |-> k.start + k.nb]
       [] k.op \in {"view", "inst_view"} ->
            CASE k.idx.form = "RangeFull" -> [start |-> 0, end |-> c]
              [] k.idx.form = "RangeTo" -> [start |-> 0, end |-> k.idx.end]
              [] k.idx.form = "RangeFrom" -> [start |-> k.idx.start, end |-> c]
              [] k.idx.form = "Range" ->
                   [start |-> k.idx.start, end |-> k.idx.end]
              [] k.idx.form = "RangeInclusive" ->
                   [start |-> k.idx.start, end |-> k.idx.end + 1]
              [] k.idx.form = "RangeToInclusive" ->
                   [start |-> 0, end |-> k.idx.end + 1]

\* The Tess was built with an explicit vertex count smaller than the length of
\* the data that count is checked against.
explicit_count_below_data ==
  /\ render_vert_nb > 0
  /\ IF index_data # <<>> THEN render_vert_nb < Len(index_data)
     ELSE is_some(vertex_data) /\ render_vert_nb < length(vertex_data)

\* C12: the capacity of every view constructor is the default vertex render
\* count of the Tess, never the storage length: a Tess built with an explicit
\* count k smaller than its data length has capacity k, reports k in its
\* IncorrectViewWindow errors and rejects every view whose window ends
\* beyond k.
C12_CapacityIsRenderCount ==
  (is_some(call) /\ explicit_count_below_data)
  => LET r == unwrap(view)
     IN /\ tess.render_vert_nb = render_vert_nb
        /\ window.end > render_vert_nb => ~r.ok
        /\ (~r.ok /\ ~panicked(r)) => r.err.capacity = render_vert_nb

\* The same statement for the calls whose arithmetic stays within usize.
C12_CapacityNoOverflow ==
  (is_some(call) /\ explicit_count_below_data /\ window.end <= usize_MAX)
  => LET r == unwrap(view)
     IN /\ tess.render_vert_nb = render_vert_nb
        /\ window.end > render_vert_nb => ~r.ok
        /\ (~r.ok /\ ~panicked(r)) => r.err.capacity = render_vert_nb

\* What the explicit constructors are specified to return on a Tess with
\* default counts c and i: sub(n) and slice(start, n), with the instance
\* count inst of the view.
specified_sub(n, inst) ==
  LET c == tess.render_vert_nb
  IN IF n <= c
     THEN Ok([start_index |-> 0, vert_nb |-> n, inst_nb |-> inst])
     ELSE Err([kind |-> "IncorrectViewWindow", capacity |-> c, start |-> 0,
               nb |-> n])

specified_slice(start, n, inst) ==
  LET c == tess.render_vert_nb
  IN IF start <= c /\ start + n <= c
     THEN Ok([start_index |-> start, vert_nb |-> n, inst_nb |-> inst])
     ELSE Err([kind |-> "IncorrectViewWindow", capacity |-> c,
               start |-> start, nb |-> n])

\* The explicit constructor call a range form stands for.
specified_view(idx, inst) ==
  LET c == tess.render_vert_nb
  IN CASE idx.form = "RangeFull" ->
            Ok([start_index |-> 0, vert_nb |-> c, inst_nb |-> inst])
       [] idx.form = "RangeTo" -> specified_sub(idx.end, inst)
       [] idx.form = "RangeToInclusive" -> specified_sub(idx.end + 1, inst)
       [] idx.form = "Range" ->
            specified_slice(idx.start, idx.end - idx.start, inst)
       [] idx.form = "RangeInclusive" ->
            specified_slice(idx.start, idx.end - idx.start + 1, inst)
       [] idx.form = "RangeFrom" ->
            specified_slice(idx.start, c - idx.start, inst)

\* The ranges the equivalence is stated for: a <= b where there are two
\* bounds, and a start within the capacity for a.. (c - a is a length).
ordered(idx) ==
  CASE idx.form \in {"Range", "RangeInclusive"} -> idx.start <= idx.end
    [] idx.form = "RangeFrom" -> idx.start <= tess.render_vert_nb
    [] OTHER -> TRUE

\* The outcomes of the explicit constructor call a range form stands for, the
\* argument being computed in usize as the caller of the constructor would.
explicit_call(idx, inst) ==
  LET c == tess.render_vert_nb
      plain == called("view")
      sub_(n) == IF plain THEN {TessView_sub(n)} ELSE {TessView_inst_sub(n, inst)}
      slice_(a, n) == IF plain THEN TessView_slice(a, n)
                      ELSE TessView_inst_slice(a, n, inst)
      plus_one(ns) ==
        UNION {IF is_none(n) THEN {None} ELSE usize_add(unwrap(n), 1) : n \in ns}
  IN CASE idx.form = "RangeFull" ->
            {Ok(IF plain THEN TessView_whole ELSE TessView_inst_whole(inst))}
       [] idx.form = "RangeTo" -> sub_(idx.end)
       [] idx.form = "RangeToInclusive" ->
            UNION {IF is_none(n) THEN {panic("overflow")} ELSE sub_(unwrap(n)) :
                     n \in usize_add(idx.end, 1)}
       [] idx.form = "Range" ->
            UNION {IF is_none(n) THEN {panic("overflow")}
                   ELSE slice_(idx.start, unwrap(n)) :
                     n \in usize_sub(idx.end, idx.start)}
       [] idx.form = "RangeInclusive" ->
            UNION {IF is_none(n) THEN {panic("overflow")}
                   ELSE slice_(idx.start, unwrap(n)) :
                     n \in plus_one(usize_sub(idx.end, idx.start))}
       [] idx.form = "RangeFrom" ->
            UNION {IF is_none(n) THEN {panic("overflow")}
                   ELSE slice_(idx.start, unwrap(n)) :
                     n \in usize_sub(c, idx.start)}

\* C13: on a Tess with default count c, for all a <= b, view(..) is whole
\* (never fails), view(..b) is sub(b), view(..=b) is sub(b + 1), view(a..b) is
\* slice(a, b - a), view(a..=b) is slice(a, b - a + 1), view(a..) is
\* slice(a, c - a), and inst_view maps likewise onto the inst_ constructors:
\* the range form returns what that constructor call returns, and for every
\* range whose end fits in usize that is the view or the error the
\* constructors are specified to return.
C13_RangeSugar ==
  ((called("view") \/ called("inst_view")) /\ ordered(unwrap(call).idx))
  => LET idx == unwrap(call).idx
         inst == IF called("view") THEN tess.render_inst_nb
                 ELSE unwrap(call).inst_nb
         r == unwrap(view)
     IN /\ \E e \in explicit_call(idx, inst) :
             (panicked(r) /\ panicked(e)) \/ r = e
        /\ idx.form = "RangeFull" => r.ok
        /\ window.end <= usize_MAX => r = specified_view(idx, inst)

\* view(1..c) on a Tess with c >= 2 vertices is the view (1, c - 1).
C13_Witness ==
  /\ called("view")
  /\ tess.render_vert_nb >= 2
  /\ unwrap(call).idx = [form |-> "Range", start |-> 1, end |-> tess.render_vert_nb]
  /\ unwrap(view).ok
  /\ unwrap(view).val.start_index = 1
  /\ unwrap(view).val.vert_nb = tess.render_vert_nb - 1

----------------------------------------------------------------------------
\* Properties of the gates

gates_of(sc) == [n \in 1..Len(sc) |-> sc[n].gate]

issued(op) == {n \in 1..Len(backend_calls) : backend_calls[n].op = op}

\* C14: a draw is only issued while nested inside exactly one framebuffer
\* scope, one program scope and one render-state scope, entered in that order:
\* before every draw the pass was begun and is not ended, shade applied a
\* program inside the open framebuffer scope, and a render state was applied
\* inside that program scope.
C14_DrawNested ==
  \A d \in issued("draw") :
    LET at == backend_calls[d].scopes
    IN /\ gates_of(at) = <<"ShadingGate", "RenderGate", "TessGate">>
       /\ \E b \in issued("begin_pass") : \E p \in issued("apply_shader_program") :
          \E r \in issued("apply_render_state") :
            /\ b < p /\ p < r /\ r < d
            /\ \A e \in issued("end_pass") : e < b \/ e > d
            /\ backend_calls[p].scopes = SubSeq(at, 1, 1)
            /\ backend_calls[p].gate = at[1].id
            /\ backend_calls[r].scopes = SubSeq(at, 1, 2)
            /\ backend_calls[r].gate = at[2].id

\* A draw has been issued in a second program scope of the pass.
C14_Witness ==
  /\ issued("draw") # {}
  /\ Cardinality(issued("apply_shader_program")) = 2
  /\ \E d \in issued("draw") : \A p \in issued("apply_shader_program") : p < d

\* The backend calls issued through the gate handle `id`.
uses(id) == {n \in 1..Len(backend_calls) : backend_calls[n].gate = id}

\* The handles that have been handed to a callback so far.
handles == 1..(Len(scopes) + Len(returns))

\* The handles whose callback has returned.
returned_handles == {returns[n].gate : n \in 1..Len(returns)}

\* The handle `id` was, at every use, the one of the innermost open scope: it
\* was not used while a scope it had opened was open, nor after the callback
\* that received it had returned.
used_in_scope(id) ==
  \A n \in uses(id) :
    LET at == backend_calls[n].scopes
    IN at # <<>> /\ at[Len(at)].id = id

\* C15 as stated: a gate handle enters the next stage at most once, and no
\* handle is used after the callback that received it has returned.
C15_Original ==
  \A id \in handles :
    /\ Cardinality(uses(id)) <= 1
    /\ used_in_scope(id)

\* C15: a gate handle is used only by the callback that received it and only
\* while no scope it opened is open; the handle of a callback that has returned
\* is not among the open scopes, so that nothing is issued through it again.
\* It is not consumed by entering the next stage.
C15_GateBorrow ==
  /\ \A id \in handles : used_in_scope(id)
  /\ \A n \in 1..Len(scopes) : scopes[n].id \notin returned_handles
  /\ \A n, k \in 1..Len(scopes) : scopes[n].id = scopes[k].id => n = k

\* The gate of the framebuffer scope has entered shade twice, the first
\* program scope being closed when the second was opened.
C15_Witness ==
  /\ \E id \in handles :
       Cardinality({n \in uses(id) : backend_calls[n].op = "apply_shader_program"}) = 2
  /\ returned_handles # {}

\* The draws that the backend refused.
failed_draws == {d \in issued("draw") : ~backend_calls[d].ret.ok}

\* The return of the gate call that had opened the scope of handle `id`.
return_of(id) == CHOOSE n \in 1..Len(returns) : returns[n].gate = id

\* C16, in every state: each gate call returns the Result of its callback
\* (with_framebuffer in the error type of the backend); after a draw has
\* failed the backend receives nothing more in that pass but the end of the
\* pass, every scope around the draw that has returned has returned the error
\* of the draw, and so has with_framebuffer to its caller.
C16_ErrorPropagates ==
  /\ \A n \in 1..Len(returns) :
       IF returns[n].op = "with_framebuffer"
       THEN returns[n].ret = with_framebuffer_result(returns[n].callback)
       ELSE returns[n].ret = returns[n].callback
  /\ \A d \in failed_draws :
       LET error == backend_calls[d].ret.err
           around == backend_calls[d].scopes
       IN /\ \A n \in (d + 1)..Len(backend_calls) : backend_calls[n].op = "end_pass"
          /\ \A k \in 1..Len(around) :
               around[k].id \in returned_handles
               => /\ returns[return_of(around[k].id)].callback = Err(error)
                  /\ k > 1 => returns[return_of(around[k].id)].ret = Err(error)
          /\ is_some(final) => unwrap(final) = Err(error.from)

\* C16, in every step: the return of shade hands on the Result and leaves the
\* backend alone.
C16_ShadeReturn ==
  (Len(returns') = Len(returns) + 1 /\ returns'[Len(returns')].op = "shade")
  => /\ backend_calls' = backend_calls
     /\ returns'[Len(returns')].ret = returns'[Len(returns')].callback

pass_open == Cardinality(issued("begin_pass")) > Cardinality(issued("end_pass"))

\* C17: every framebuffer scope that has begun a pass is eventually ended: the
\* backend's end of the pass happens when the callback of with_framebuffer
\* returns, when it returns Ok and when it returns Err, so that no execution
\* leaves a pass begun and never ended, and with_framebuffer has returned
\* only with the pass ended.
C17_PassEnded ==
  /\ pass_open ~> ~pass_open
  /\ [](is_some(final) => (~pass_open /\ issued("end_pass") # {}))
  /\ [](pass_open <=> scopes # <<>>)

\* with_framebuffer has returned an error, the pass being ended.
C17_Witness ==
  /\ is_some(final) /\ ~unwrap(final).ok
  /\ issued("begin_pass") # {} /\ ~pass_open
  /\ backend_calls[Len(backend_calls)].op = "end_pass"

----------------------------------------------------------------------------
\* Properties of mapping

\* What a caller reads of a buffer: through the slice mapped on it, or else
\* through a slice it would map now.
content_of(buffer) ==
  IF \E s \in mapped : s.buffer = buffer
  THEN (CHOOSE s \in mapped : s.buffer = buffer).content
  ELSE storage[buffer]

\* C18: after a value sequence has been written through a mutable vertex,
\* index or instance slice of a Tess and that slice dropped, a fresh slice of
\* the same buffer holds the identical sequence, and every read of it, any
\* number of times with no write in between, yields that sequence.
C18_RoundTrip ==
  is_some(written)
  => LET w == unwrap(written)
     IN /\ content_of(w.buffer) = w.content
        /\ mapped = {} => storage[w.buffer] = w.content
        /\ \A n \in 1..Len(seen) :
             seen[n].buffer = w.buffer /\ seen[n].content = w.content

\* A value has been stored through a mutable slice, the slice dropped, and a
\* fresh read-only slice of the same buffer read MaxReads times.
C18_Witness ==
  /\ is_some(written)
  /\ \E n \in 1..Len(unwrap(written).content) :
       unwrap(written).content[n] = other_value(unwrap(written).buffer)
  /\ \E s \in mapped : ~s.mutable /\ s.buffer = unwrap(written).buffer
  /\ Len(seen) = MaxReads
  /\ \A n \in 1..Len(seen) : ~seen[n].mutable

\* The shape of the Tess: its render counts and the element count of each of
\* its buffers.
shape ==
  [render_vert_nb |-> tess.render_vert_nb,
   render_inst_nb |-> tess.render_inst_nb,
   buffers |-> [b \in DOMAIN storage |-> Len(storage[b])]]

\* C19: no mapping operation, view construction or draw changes the render
\* counts of a Tess or the element count of any of its buffers, and a mapped
\* slice has the element count of its buffer.
C19_ShapeFixed ==
  [][/\ shape' = shape
     /\ \A s \in mapped' : Len(s.content) = Len(storage'[s.buffer])]_vars

\* A value has been stored in a buffer, a draw issued and a view made of the
\* Tess.
C19_Witness ==
  /\ is_some(written) /\ mapped = {}
  /\ is_some(view) /\ unwrap(view).ok
  /\ \E n \in 1..Len(backend_calls) :
       "gate" \in DOMAIN backend_calls[n] /\ backend_calls[n].op = "draw"

\* C20: at most one mapped slice of a Tess is alive at any time, mutable or
\* not, and none is alive while a view of the Tess is.
C20_OneSlice ==
  /\ Cardinality(mapped) <= 1
  /\ mapped # {} => is_none(view)

\* A mutable slice is alive on a buffer after a mutable slice of another
\* buffer has been written and released.
C20_Witness ==
  /\ is_some(written)
  /\ \E s \in mapped : s.mutable /\ s.buffer # unwrap(written).buffer

----------------------------------------------------------------------------
\* Properties of the setters

\* The fields of the builder.
fields ==
  [vertex_data |-> vertex_data, index_data |-> index_data,
   instance_data |-> instance_data, mode |-> mode,
   render_vert_nb |-> render_vert_nb, render_inst_nb |-> render_inst_nb,
   restart_index |-> restart_index]

\* The values a call of the setter of field f can give it.
given(f) ==
  CASE f = "mode" -> ModeInputs
    [] f = "render_vert_nb" -> RenderNbInputs
    [] f = "render_inst_nb" -> RenderNbInputs
    [] f = "restart_index" -> {Some(i) : i \in ValuesOf(I')}
    [] f = "vertex_data" -> {Some(v) : v \in Vecs(V')}
    [] f = "instance_data" -> {Some(w) : w \in Vecs(W')}

\* The fields that have one of the six setters: set_vertices and set_instances
\* are methods of the interleaved builder only.
setters ==
  {"mode", "render_vert_nb", "render_inst_nb", "restart_index"}
    \cup (IF S = "Interleaved" THEN {"vertex_data", "instance_data"} ELSE {})

\* A step of the builder chain that is a call of set_mode,
\* set_render_vertex_nb, set_render_instance_nb, set_primitive_restart_index,
\* set_vertices or set_instances: not build, not set_indices, not a column
\* setter of a deinterleaved builder.
setter_step ==
  /\ pc = "builder" /\ pc' = "builder"
  /\ I' = I /\ index_data' = index_data
  /\ S = "Deinterleaved" => vertex_data' = vertex_data /\ instance_data' = instance_data

columns(data, T) ==
  IF is_some(data) THEN unwrap(data)
  ELSE [a \in 1..Len(vertex_desc(T)) |-> DeinterleavedData_new]

\* Two calls of the column setter, for the distinct fields f and g of T, give
\* the same data in either order, and a call replaces the column at the rank
\* of its field only.
any_order(data, T) ==
  \A r1, r2 \in 1..Len(vertex_desc(T)) :
    r1 # r2 =>
      LET f == vertex_desc(T)[r1]
          g == vertex_desc(T)[r2]
      IN \A x \in Vecs(f), y \in Vecs(g) :
           /\ with_attributes(with_attributes(data, T, f, x), T, g, y)
                = with_attributes(with_attributes(data, T, g, y), T, f, x)
           /\ unwrap(with_attributes(data, T, f, x))[r1]
                = [raw |-> raw_bytes(x, size_of(f)), len |-> Len(x)]
           /\ unwrap(with_attributes(data, T, f, x))[r2] = columns(data, T)[r2]

\* C22, in every state of a deinterleaved builder: set_attributes for two
\* distinct fields gives the same vertex data in either order, hence the same
\* builder and the same outcome of build, and replaces only the column at the
\* rank of its field; the same for set_instance_attributes.
C22_Commute ==
  (pc = "builder" /\ S = "Deinterleaved")
  => any_order(vertex_data, V) /\ any_order(instance_data, W)

\* C22, in every step: a step that changes the vertex data, or the instance
\* data, of a deinterleaved builder changes one column of it and nothing else
\* of the builder.
C22_Step ==
  (pc = "builder" /\ S = "Deinterleaved")
  => \A d \in {"vertex_data", "instance_data"} :
       fields'[d] # fields[d]
       => LET T == IF d = "vertex_data" THEN V ELSE W
          IN /\ is_some(fields'[d])
             /\ Cardinality({r \in 1..Len(vertex_desc(T)) :
                               unwrap(fields'[d])[r] # columns(fields[d], T)[r]}) <= 1
             /\ \A g \in DOMAIN fields \ {d} : fields'[g] = fields[g]
             /\ <<pc, S, V, I, W>>' = <<pc, S, V, I, W>>

\* C22: deinterleaved columns may be supplied in any order.
C22_AnyOrder == []C22_Commute /\ [][C22_Step]_vars

\* Both columns of the vertex data have been given, with different lengths,
\* and a column of the instance data.
C22_Witness ==
  /\ pc = "builder" /\ S = "Deinterleaved"
  /\ is_some(vertex_data) /\ is_some(instance_data)
  /\ unwrap(vertex_data)[1].len = MaxLen /\ unwrap(vertex_data)[2].len = 1
  /\ unwrap(instance_data)[2].len = MaxLen /\ unwrap(instance_data)[1].len = 0

----------------------------------------------------------------------------
\* Properties of shade

\* The RenderGate handles that shade has handed to its callback: those of the
\* callbacks that are running, and those of the callbacks that have returned.
render_gates_open == {n \in 1..Len(scopes) : scopes[n].gate = "RenderGate"}

render_gates_returned == {n \in 1..Len(returns) : returns[n].op = "shade"}

\* C23, in every state: the program has been applied once for each callback
\* that shade has invoked, no RenderGate handle was handed out twice, and
\* whatever the backend received inside a program scope, it received after
\* the program of that scope was applied.
C23_AppliedOnce ==
  /\ Cardinality(issued("apply_shader_program"))
       = Cardinality(render_gates_open) + Cardinality(render_gates_returned)
  /\ \A n \in render_gates_open : \A k \in render_gates_returned :
       scopes[n].id # returns[k].gate
  /\ \A n, k \in render_gates_returned :
       returns[n].gate = returns[k].gate => n = k
  /\ \A n \in 1..Len(backend_calls) :
       Len(backend_calls[n].scopes) >= 2
       => \E p \in issued("apply_shader_program") :
            /\ p < n
            /\ \A k \in (p + 1)..n : Len(backend_calls[k].scopes) >= 2

\* C23, in every step: the step that invokes the callback of shade is the one
\* that applies the program, once, while the scope of the callback is not yet
\* open and nothing has been issued through the RenderGate; no other step
\* applies a program.
C23_ShadeStep ==
  IF Len(scopes') = Len(scopes) + 1 /\ scopes'[Len(scopes')].gate = "RenderGate"
  THEN /\ backend_calls' =
            Append(backend_calls, gate_call("apply_shader_program", top.id))
       /\ scopes' = Append(scopes, scopes'[Len(scopes')])
       /\ \A n \in 1..Len(backend_calls') :
            backend_calls'[n].gate # scopes'[Len(scopes')].id
  ELSE issued("apply_shader_program")' = issued("apply_shader_program")

\* C23: in every call of shade the program is applied exactly once and before
\* the callback is invoked, the RenderGate handed to the callback is made after
\* the program was applied, and the callback is invoked exactly once.
C23_ApplyBeforeCallback == []C23_AppliedOnce /\ [][C23_ShadeStep]_vars

\* shade has been called twice in a pass: the callback of the first call has
\* returned, the callback of the second is running under its render state.
C23_Witness ==
  /\ Cardinality(render_gates_returned) = 1
  /\ Cardinality(render_gates_open) = 1
  /\ Len(scopes) = 3
  /\ backend_calls[Len(backend_calls)].op = "apply_render_state"

----------------------------------------------------------------------------
\* Properties of the views under machine arithmetic

\* The call was view or inst_view with one of the given range forms.
called_view(forms) ==
  (called("view") \/ called("inst_view")) /\ unwrap(call).idx.form \in forms

\* C24: for every range form whose start a exceeds the capacity c of the Tess
\* (a.., a..b, a..=b, in view and in inst_view) the call returns the error
\* IncorrectViewWindow{capacity: c, start: a, ..}: it neither succeeds nor
\* aborts.
C24_StartBeyondCapacity ==
  (called_view({"RangeFrom", "Range", "RangeInclusive"})
     /\ unwrap(call).idx.start > tess.render_vert_nb)
  => LET r == unwrap(view)
     IN /\ ~r.ok
        /\ r.err.kind = "IncorrectViewWindow"
        /\ r.err.capacity = tess.render_vert_nb
        /\ r.err.start = unwrap(call).idx.start

\* The same statement for the calls that subtract nothing larger from
\* something smaller: a..b and a..=b with a <= b.
C24_OrderedBeyondCapacity ==
  (called_view({"Range", "RangeInclusive"})
     /\ unwrap(call).idx.start > tess.render_vert_nb
     /\ unwrap(call).idx.start <= unwrap(call).idx.end)
  => LET r == unwrap(view)
     IN /\ ~r.ok
        /\ r.err.kind = "IncorrectViewWindow"
        /\ r.err.capacity = tess.render_vert_nb
        /\ r.err.start = unwrap(call).idx.start

\* C25: no call of slice, inst_slice, or of the range forms that add one to a
\* bound (a..=b, ..=b) returns a view whose start_index + vert_nb, as the
\* numbers they are, exceeds the capacity c, whatever the sums do in usize.
C25_NoViewBeyondCapacity ==
  ((called("slice") \/ called("inst_slice")
      \/ called_view({"RangeInclusive", "RangeToInclusive"}))
     /\ unwrap(view).ok)
  => unwrap(view).val.start_index + unwrap(view).val.vert_nb <= tess.render_vert_nb

\* C26: every TessView obtained from any constructor has start_index <= c and
\* start_index + vert_nb <= c, c being the render_vert_nb() of its Tess.
C26_ViewWithinCapacity ==
  (is_some(view) /\ unwrap(view).ok)
  => LET v == unwrap(view).val
         c == tess.render_vert_nb
     IN v.start_index <= c /\ v.start_index + v.vert_nb <= c

\* The same statement for the calls whose window, first vertex to the vertex
\* after the last as the caller wrote them, is ordered and ends within usize.
C26_WithinCapacityNoOverflow ==
  (is_some(view) /\ unwrap(view).ok
     /\ window.start <= window.end /\ window.end <= usize_MAX)
  => LET v == unwrap(view).val
         c == tess.render_vert_nb
     IN v.start_index <= c /\ v.start_index + v.vert_nb <= c

----------------------------------------------------------------------------
\* Properties of build: counts of 0, indexed builders, set_indices

\* C27: a render count of 0 is no explicit count. The builder that was given
\* the count 0 holds what a builder that was never given one holds, and build
\* infers the count: the vertex count from the index set, else from the
\* vertex data, with NoData when there is neither (never a Tess of 0
\* vertices); the instance count from the instance data, 0 without any.
C27_ZeroIsNoCount ==
  built =>
    /\ render_vert_nb = 0 =>
         /\ (index_data = <<>> /\ is_none(vertex_data)) => returned = Err(NoData)
         /\ (index_data = <<>> /\ incoherent(vertex_data))
              => ~returned.ok /\ returned.err.kind = "LengthIncoherency"
         /\ returned.ok =>
              returned.val.render_vert_nb =
                IF index_data # <<>> THEN Len(index_data) ELSE length(vertex_data)
         /\ (vertex_count_valid /\ instance_count_valid) => backend_asked
    /\ render_inst_nb = 0 =>
         /\ returned.ok =>
              returned.val.render_inst_nb =
                IF is_none(instance_data) THEN 0 ELSE length(instance_data)
         /\ (vertex_count_valid /\ ~incoherent(instance_data)) => backend_asked

\* Both counts are 0 and build has inferred them from the vertices and the
\* instances the builder was given.
C27_Witness ==
  /\ built /\ render_vert_nb = 0 /\ render_inst_nb = 0
  /\ index_data = <<>>
  /\ is_some(vertex_data) /\ is_some(instance_data)
  /\ returned.ok
  /\ returned.val.render_vert_nb = 1
  /\ returned.val.render_inst_nb = MaxLen

\* C28: with a non-empty index set, the vertex count step of build depends
\* on the index length and the explicit count only: idx.len() without an
\* explicit count, k for an explicit k <= idx.len(), LengthIncoherency(k) for
\* k > idx.len(), whatever the vertex data is.
C28_IndexedVertexCount ==
  index_data # <<>> =>
    /\ guess_render_vertex_len =
         IF render_vert_nb = 0 THEN Ok(Len(index_data))
         ELSE IF render_vert_nb <= Len(index_data) THEN Ok(render_vert_nb)
         ELSE Err(length_incoherency(render_vert_nb))
    /\ built =>
         IF render_vert_nb > Len(index_data)
         THEN returned = Err(length_incoherency(render_vert_nb)) /\ ~backend_asked
         ELSE /\ instance_count_valid => backend_asked
              /\ returned.ok =>
                   returned.val.render_vert_nb =
                     IF render_vert_nb = 0 THEN Len(index_data) ELSE render_vert_nb

\* An indexed builder whose vertex columns differ in length has built a Tess
\* with the explicit count, which is below the index length.
C28_Witness ==
  /\ built /\ Len(index_data) = MaxLen /\ render_vert_nb = 1
  /\ incoherent(vertex_data)
  /\ returned.ok /\ returned.val.render_vert_nb = 1

\* C29, in every step: set_indices (the step that gives the builder its index
\* type) replaces the index set, resets the restart index to None and leaves
\* the vertex data, the instance data, the mode and the two counts as they
\* were.
C29_SetIndicesStep ==
  (pc = "builder" /\ pc' = "builder" /\ I' # I)
  => /\ index_data' \in Vecs(I')
     /\ restart_index' = None
     /\ \A g \in DOMAIN fields \ {"index_data", "restart_index"} :
          fields'[g] = fields[g]
     /\ <<S, V, W>>' = <<S, V, W>>

\* C29, in every state: build passes the backend the restart index that the
\* builder holds, and the index set that it holds.
C29_NoStaleRestartIndex ==
  backend_asked
  => /\ backend_calls[1].args.restart_index = restart_index
     /\ backend_calls[1].args.index_data = index_data

\* C29: set_indices preserves the vertex data, the instance data, the mode and
\* the explicit counts, replaces the index set and resets the restart index,
\* so that a restart index set before set_indices never reaches the backend.
C29_SetIndicesResets == []C29_NoStaleRestartIndex /\ [][C29_SetIndicesStep]_vars

\* An indexed builder with vertices, a mode and counts of its own has been
\* built without a restart index.
C29_Witness ==
  /\ built /\ I = "u32" /\ Len(index_data) = MaxLen
  /\ restart_index = None
  /\ mode = "Triangle" /\ render_vert_nb = MaxLen /\ render_inst_nb = 1
  /\ is_some(vertex_data) /\ is_some(instance_data)
  /\ backend_accepted /\ backend_calls[1].args.restart_index = None

\* The outcomes of the instanced constructor call k, had it been given the
\* instance count inst.
inst_outcomes(k, inst) ==
  CASE k.op = "inst_whole" -> {Ok(TessView_inst_whole(inst))}
    [] k.op = "inst_sub" -> {TessView_inst_sub(k.vert_nb, inst)}
    [] k.op = "inst_slice" -> TessView_inst_slice(k.start, k.nb, inst)
    [] k.op = "inst_view" -> View_inst_view(k.idx, inst)

\* The outcome r, with the instance count inst in the view when it is one.
with_inst(r, inst) == IF r.ok THEN [r EXCEPT !.val.inst_nb = inst] ELSE r

\* C30: the instance count of a view is never validated. inst_whole, inst_sub,
\* inst_slice and every range form of inst_view store the inst_nb they are
\* given, whatever it is and whatever the Tess holds, and whether they return
\* Ok or the error does not depend on it: with any other count the call has
\* the same outcome, but for the count in the view.
C30_InstNbUnchecked ==
  (is_some(call) /\ unwrap(call).op \in {"inst_whole", "inst_sub", "inst_slice",
                                         "inst_view"})
  => LET k == unwrap(call)
         r == unwrap(view)
     IN /\ r.ok => r.val.inst_nb = k.inst_nb
        /\ \A inst \in InstNbInputs \cup {usize_MAX} :
             with_inst(r, inst) \in inst_outcomes(k, inst)

\* inst_sub has returned a view with more instances than the default count of
\* a Tess that has no instance data.
C30_Witness ==
  /\ called("inst_sub")
  /\ is_none(instance_data) /\ tess.render_inst_nb = 0
  /\ unwrap(call).inst_nb = MaxLen + 1
  /\ unwrap(view).ok /\ unwrap(view).val.inst_nb = MaxLen + 1

====
